---- MODULE Spec2Model ----
(***************************************************************************)
(* Model of the OAI-PMH harvesting engine of IndexJournalDataScraping:     *)
(* OaiDataProcessor (src/src/processors/oaiDataProcessor.js).              *)
(*                                                                         *)
(* Strings that the code inspects character by character (URLs, tokens)    *)
(* are sequences of one-character strings; a literal the code only appends *)
(* is kept as a single element of the sequence.  Error codes and messages, *)
(* which the code only compares and copies, are TLA+ strings.              *)
(***************************************************************************)
EXTENDS Integers, Sequences, FiniteSets, TLC

\* ------------------------------------------------------------------ bounds
\* largest page cap (this.maxPages) a processor is configured with
MaxPagesBound == 3
\* largest number of <record> elements in one page
MaxRecs == 2
\* longest path (in characters) of a URL handed to the URL builders
MaxPathLen == 5
\* largest number of articles in a page handed to the page callback
MaxArticles == 125
\* largest pageNumber the page callback is called with on its own
MaxPageNumber == 2
\* largest number of records counted before the page handed to the callback
MaxBefore == 1
\* largest page cap of the processor of a work item
MaxPhasePages == 2
\* largest number of full batches in a page of a work item
MaxFullBatches == 1
\* largest number of records in an event
MaxItems == 2
\* largest number of elements of one Dublin-Core field of a record
MaxValues == 3
\* largest number of records in a page handed to the normalizer
MaxPageRecords == 3

\* ------------------------------------------------------------------ values
\* JavaScript null / undefined, and the absence of a property
NULL == "NULL"

\* a || b on values that are either NULL or a non-empty string
JsOr(a, b) == IF a # NULL THEN a ELSE b

\* ------------------------------------------------------------------ strings
HasSuffix(s, suf) ==
    /\ Len(s) >= Len(suf)
    /\ SubSeq(s, Len(s) - Len(suf) + 1, Len(s)) = suf

HasPrefix(s, pre) ==
    /\ Len(s) >= Len(pre)
    /\ SubSeq(s, 1, Len(pre)) = pre

DropLast(s, n) == SubSeq(s, 1, Len(s) - n)

\* String.prototype.trim on the characters the model uses
RECURSIVE TrimLeft(_)
TrimLeft(s) == IF s # <<>> /\ Head(s) = " " THEN TrimLeft(Tail(s)) ELSE s

RECURSIVE TrimRight(_)
TrimRight(s) ==
    IF s # <<>> /\ s[Len(s)] = " " THEN TrimRight(DropLast(s, 1)) ELSE s

Trim(s) == TrimRight(TrimLeft(s))

\* ------------------------------------------------------------------ errors
\* A value that can be thrown.  kind "error": an object with the properties
\* the code reads (name, code, response.status, message); a property that is
\* absent is NULL, an absent (or zero) response status is 0.  kind "null":
\* the value null/undefined, which has no properties at all.
ErrorObject(name, code, status, message) ==
    [kind |-> "error", name |-> name, code |-> code, status |-> status,
     message |-> message]

NullValue ==
    [kind |-> "null", name |-> NULL, code |-> NULL, status |-> 0,
     message |-> NULL]

\* new Error(message)
NewError(message) == ErrorObject("Error", NULL, 0, message)

NetworkCodes == {"ECONNREFUSED", "ENOTFOUND", "ETIMEDOUT", "ECONNRESET"}

getNetworkErrorCode(error) ==
    CASE error.code = "ECONNREFUSED" -> "CONNECTION_REFUSED"
      [] error.code = "ENOTFOUND"    -> "DNS_RESOLUTION_FAILED"
      [] error.code = "ETIMEDOUT"    -> "TIMEOUT_ERROR"
      [] error.code = "ECONNRESET"   -> "CONNECTION_RESET"
      [] OTHER                       -> NULL

getHttpErrorCode(error) ==
    LET status == error.status IN
    IF status = 0 THEN NULL
    ELSE IF status >= 400 /\ status < 500
         THEN "HTTP_CLIENT_ERROR_" \o ToString(status)
    ELSE IF status >= 500 /\ status < 600
         THEN "HTTP_SERVER_ERROR_" \o ToString(status)
    ELSE "HTTP_ERROR_" \o ToString(status)

getAxiosErrorCode(error) ==
    IF error.name # "AxiosError" THEN NULL
    ELSE CASE error.code = "ECONNABORTED" -> "REQUEST_TIMEOUT"
           [] error.code = "ERR_NETWORK"  -> "NETWORK_ERROR"
           [] OTHER                       -> "AXIOS_ERROR"

getGenericErrorCode(error) ==
    CASE error.name = "TypeError"      -> "TYPE_ERROR"
      [] error.name = "SyntaxError"    -> "SYNTAX_ERROR"
      [] error.name = "ReferenceError" -> "REFERENCE_ERROR"
      [] OTHER                         -> NULL

\* a plausible slip: the HTTP-status bucket consulted before the OS codes,
\* and the runtime-error bucket before the Axios bucket
getErrorCodeReordered(error) ==
    IF error.kind = "null" THEN "UNKNOWN_ERROR"
    ELSE JsOr(getHttpErrorCode(error),
         JsOr(getNetworkErrorCode(error),
         JsOr(getGenericErrorCode(error),
         JsOr(getAxiosErrorCode(error), "UNKNOWN_ERROR"))))

getErrorCode(error) ==
    IF error.kind = "null" THEN "UNKNOWN_ERROR"
    ELSE JsOr(getNetworkErrorCode(error),
         JsOr(getHttpErrorCode(error),
         JsOr(getAxiosErrorCode(error),
         JsOr(getGenericErrorCode(error), "UNKNOWN_ERROR"))))

\* ------------------------------------------------------------------ URLs
\* A value handed in as oaiUrl: a string (t = "str", s its characters), or
\* null/undefined (t = "null"), or a truthy value that is no string, such
\* as a number or an object (t = "other").
StrVal(s) == [t |-> "str", s |-> s]
NullUrl == [t |-> "null", s |-> <<>>]
OtherUrl == [t |-> "other", s |-> <<>>]

Letters == {"h", "t", "p", "s", "x", "f", "o", "a", "i"}

SchemeHttp == <<"h", "t", "t", "p">>
SchemeHttps == <<"h", "t", "t", "p", "s">>
SchemeHttpx == <<"h", "t", "t", "p", "x">>
SchemeFtp == <<"f", "t", "p">>
\* schemes for which the URL parser demands a host
SpecialSchemes == {SchemeHttp, SchemeHttps, SchemeFtp}

\* index of the first ":" of s, 0 when there is none
RECURSIVE ColonAt(_, _)
ColonAt(s, i) ==
    IF i > Len(s) THEN 0 ELSE IF s[i] = ":" THEN i ELSE ColonAt(s, i + 1)

RECURSIVE SkipSlashes(_)
SkipSlashes(s) ==
    IF s # <<>> /\ Head(s) = "/" THEN SkipSlashes(Tail(s)) ELSE s

\* new URL(url) without a base: fails (ok = FALSE) unless the trimmed
\* string starts with a scheme and ":", and, for a special scheme, names a
\* host; otherwise yields the protocol, the scheme followed by ":".
ParseUrl(s) ==
    LET t == Trim(s)
        c == ColonAt(t, 1)
        scheme == SubSeq(t, 1, c - 1)
        rest == SubSeq(t, c + 1, Len(t))
        host == SkipSlashes(rest)
        okScheme == c > 1 /\ \A k \in 1..(c - 1) : t[k] \in Letters
        okHost == scheme \notin SpecialSchemes
                    \/ (host # <<>> /\ Head(host) \notin {":", " "})
    IN  IF okScheme /\ okHost
        THEN [ok |-> TRUE, protocol |-> scheme \o <<":">>]
        ELSE [ok |-> FALSE, protocol |-> <<>>]

MsgRequired == "OAI URL is required"
MsgProtocol == "OAI URL must use HTTP or HTTPS protocol"
\* `Invalid OAI URL format: ${url}`; the url suffix is not kept
MsgFormat == "Invalid OAI URL format"

\* validateOaiUrl: NullValue when the url is accepted, else the Error thrown
validateOaiUrl(url) ==
    IF url.t = "null" \/ (url.t = "str" /\ url.s = <<>>)   \* !url
         \/ url.t # "str"                                  \* typeof
         \/ Len(Trim(url.s)) = 0
    THEN NewError(MsgRequired)
    ELSE LET u == ParseUrl(url.s) IN
         IF ~u.ok THEN NewError(MsgFormat)
         ELSE IF ~HasPrefix(u.protocol, SchemeHttp) THEN NewError(MsgProtocol)
         ELSE NullValue

\* website.replace(/\/oai\/?$/, '')
StripOai(website) ==
    IF HasSuffix(website, <<"/", "o", "a", "i", "/">>) THEN DropLast(website, 5)
    ELSE IF HasSuffix(website, <<"/", "o", "a", "i">>) THEN DropLast(website, 4)
    ELSE website

buildIdentifyUrl(website) == StripOai(website) \o <<"/oai?verb=Identify">>

buildListRecordsUrl(website) ==
    StripOai(website) \o <<"/oai?verb=ListRecords", "&metadataPrefix=oai_dc">>

\* encodeURIComponent, on the characters tokens are made of
EncodeChar(c) ==
    CASE c = "&" -> <<"%", "2", "6">>
      [] c = "=" -> <<"%", "3", "D">>
      [] c = "/" -> <<"%", "2", "F">>
      [] c = " " -> <<"%", "2", "0">>
      [] OTHER   -> <<c>>

RECURSIVE encodeURIComponent(_)
encodeURIComponent(s) ==
    IF s = <<>> THEN <<>>
    ELSE EncodeChar(Head(s)) \o encodeURIComponent(Tail(s))

buildResumptionTokenUrl(website, token) ==
    StripOai(website)
        \o <<"/oai?verb=ListRecords", "&resumptionToken=">>
        \o encodeURIComponent(token)

\* decodeURIComponent, the inverse the endpoint applies to a query value
RECURSIVE decodeURIComponent(_)
decodeURIComponent(s) ==
    IF s = <<>> THEN <<>>
    ELSE IF Head(s) = "%" /\ Len(s) >= 3
    THEN LET hex == <<s[2], s[3]>>
             c == CASE hex = <<"2", "6">> -> "&"
                    [] hex = <<"3", "D">> -> "="
                    [] hex = <<"2", "F">> -> "/"
                    [] hex = <<"2", "0">> -> " "
                    [] OTHER -> "?"
         IN <<c>> \o decodeURIComponent(SubSeq(s, 4, Len(s)))
    ELSE <<Head(s)>> \o decodeURIComponent(Tail(s))

\* ------------------------------------------------------------------ pages
\* No token: null.  The code tests a token only for truthiness, and the
\* empty string is as falsy as null.
NoToken == <<>>

TokenA == <<"t", "1">>
TokenB == <<"a", "&", "b", "=">>
Tokens == {TokenA, TokenB}

\* ListRecords.resumptionToken as the parser (explicitArray: false) hands it
\* over: no property, a bare string for an element without attributes (''
\* for an empty one), else an object with the attributes under $ and the
\* text, when there is text, under _
NoAttributes == [a \in {} |-> <<>>]
TokenUndefined ==
    [t |-> "undefined", s |-> <<>>, hasText |-> FALSE, text |-> <<>>,
     attrs |-> NoAttributes]
TokenString(chars) ==
    [t |-> "str", s |-> chars, hasText |-> FALSE, text |-> <<>>,
     attrs |-> NoAttributes]
TokenObject(hasText, text, attrs) ==
    [t |-> "object", s |-> <<>>, hasText |-> hasText, text |-> text,
     attrs |-> attrs]

ListSize == <<"7">>
SizeAttribute == [a \in {"completeListSize"} |-> ListSize]
TokenAttribute(chars) ==
    [a \in {"completeListSize", "resumptionToken"} |->
        IF a = "resumptionToken" THEN chars ELSE ListSize]

\* the value of resumptionToken for a shape of the element and its token
TokenField(shape, chars) ==
    IF shape = "absent" THEN TokenUndefined
    ELSE IF shape = "string" THEN TokenString(chars)
    ELSE IF shape = "text" THEN TokenObject(TRUE, chars, SizeAttribute)
    ELSE IF shape = "attr" THEN TokenObject(FALSE, <<>>, TokenAttribute(chars))
    ELSE IF shape = "both"
    THEN TokenObject(TRUE, chars, TokenAttribute(<<"z">> \o chars))
    ELSE TokenObject(FALSE, <<>>, SizeAttribute)

\* response.data.  kind "empty": no body.  kind "malformed": text the XML
\* parser rejects.  kind "identify": a document with OAI-PMH.Identify and
\* no ListRecords.  kind "xml": a document; hasListRecords tells whether
\* OAI-PMH.ListRecords is there; recN is the number of <record> elements
\* and recShape how the parser hands them over (no property, one object,
\* an array); tokShape is the shape of ListRecords.resumptionToken (no
\* property, a bare string, an object with the text under "_", an object
\* with the token under "$".resumptionToken, an object with neither) and
\* tokVal the token it holds.
Body(kind, hasListRecords, recShape, recN, tokShape, tokVal) ==
    [kind |-> kind, hasListRecords |-> hasListRecords, recShape |-> recShape,
     recN |-> recN, tokShape |-> tokShape, tokVal |-> tokVal,
     resumptionToken |-> TokenField(tokShape, tokVal)]

EmptyBody == Body("empty", FALSE, "absent", 0, "absent", NoToken)
MalformedBody == Body("malformed", FALSE, "absent", 0, "absent", NoToken)
NoListRecordsBody == Body("xml", FALSE, "absent", 0, "absent", NoToken)

\* the parser (explicitArray: false) hands over no property for no record,
\* the object for one record, an array for two or more
RecordFields ==
    {<<"absent", 0>>, <<"single", 1>>}
        \cup {<<"array", n>> : n \in 2..MaxRecs}

\* the shapes of resumptionToken the endpoints of a harvest answer with
TokenFields ==
    {<<"absent", NoToken>>, <<"string", NoToken>>, <<"other", NoToken>>,
     <<"string", TokenA>>, <<"text", TokenB>>}

ListRecordsBodies ==
    {Body("xml", TRUE, r[1], r[2], k[1], k[2]) :
        r \in RecordFields, k \in TokenFields}

Bodies == {EmptyBody, MalformedBody, NoListRecordsBody} \cup ListRecordsBodies

\* What axios.get can do: reject with an error, or resolve with a response
\* whose status passed validateStatus (status < 500).
Raised(error) ==
    [raised |-> TRUE, error |-> error, status |-> 0, data |-> EmptyBody]
Response(status, data) ==
    [raised |-> FALSE, error |-> NullValue, status |-> status, data |-> data]

TransportErrors ==
    {ErrorObject("AxiosError", "ECONNREFUSED", 0, "connect ECONNREFUSED"),
     ErrorObject("AxiosError", "ECONNABORTED", 0, "timeout of 120000ms exceeded"),
     ErrorObject("AxiosError", "ERR_BAD_RESPONSE", 503,
                 "Request failed with status code 503"),
     ErrorObject(NULL, NULL, 404, "HTTP 404 Not Found")}

validateStatus(status) == status < 500

Statuses == {200, 404}

TransportOutcomes ==
    {Raised(e) : e \in TransportErrors}
        \cup {Response(200, d) : d \in Bodies}
        \cup {Response(s, d) : s \in {x \in Statuses : x # 200 /\ validateStatus(x)},
                               d \in {EmptyBody, NoListRecordsBody}}

\* What the page callback can do: return, or reject with a value.
CallbackOk == [ok |-> TRUE, error |-> NullValue]
CallbackRaised(error) == [ok |-> FALSE, error |-> error]

CallbackOutcomes ==
    {CallbackOk,
     CallbackRaised(NewError("Callback failed")),
     CallbackRaised(ErrorObject("TypeError", NULL, 0, "x is not a function")),
     CallbackRaised(NullValue)}

\* ------------------------------------------------------------------ state
VARIABLES
    oaiUrl,                 \* the oaiUrl argument of the call
    maxPages,               \* this.maxPages of the processor
    call,                   \* the method called: "none", "Identify", "ListRecords"
    pc,                     \* where the call stands
    resumptionToken,        \* processListRecords' local
    pageCount,              \* processListRecords' local
    totalRecordsProcessed,  \* processListRecords' local
    page,                   \* the parsed page the callback is working on
    requests,               \* the URLs handed to axios.get, in order
    outcomes,               \* what axios.get answered, in order
    onPageCalls,            \* the arguments of each pageCallback call, in order
    onPageOutcomes,         \* how each finished pageCallback call ended, in order
    delays,                 \* number of this.delay(1000) calls made
    result,                 \* the object the call returned
    escaped,                \* the value the call rejected with
    arg,                    \* argument of a function applied on its own
    out,                    \* what that function returned
    journalKey,             \* the journalKey the processors are called with
    uploads,                \* the createAndUploadXml calls and how they ended
    sent,                   \* the sendMessage calls and how they ended
    cbPc,                   \* where the page callback stands
    articles,               \* the page callback's local
    batches,                \* the page callback's local
    batchIndex,             \* the page callback's loop variable
    successCount,           \* the page callback's local
    failureCount,           \* the page callback's local
    pageS3Result,           \* the page callback's local
    pageError,              \* the value caught by the page callback
    phaseError,             \* the value caught by the phase that is running
    event,                  \* the event the handler was invoked with
    recordIndex,            \* position of the handler's loop in event.Records
    batchItemFailures,      \* the handler's local
    response,               \* what the handler returned
    hPc,                    \* where the handler stands
    trace,                  \* the phases started and finished, in order
    env                     \* process.env, as far as the constructors read it

harvestVars ==
    <<oaiUrl, maxPages, call, pc, resumptionToken, pageCount,
      totalRecordsProcessed, page, requests, outcomes, onPageCalls,
      onPageOutcomes, delays, result, escaped>>

callbackVars ==
    <<cbPc, articles, batches, batchIndex, successCount, failureCount,
      pageS3Result, pageError>>

handlerVars ==
    <<phaseError, event, recordIndex, batchItemFailures, response, hPc,
      trace, env>>

orchestratorVars ==
    <<journalKey, uploads, sent, cbPc, articles, batches, batchIndex,
      successCount, failureCount, pageS3Result, pageError, phaseError,
      event, recordIndex, batchItemFailures, response, hPc, trace, env>>

vars ==
    <<oaiUrl, maxPages, call, pc, resumptionToken, pageCount,
      totalRecordsProcessed, page, requests, outcomes, onPageCalls,
      onPageOutcomes, delays, result, escaped, arg, out, journalKey, uploads,
      sent, cbPc, articles, batches, batchIndex, successCount, failureCount,
      pageS3Result, pageError, phaseError, event, recordIndex,
      batchItemFailures, response, hPc, trace, env>>

Str(chars) == StrVal(chars)

HostPrefix(scheme) == scheme \o <<":", "/", "/", "h">>
OaiPath == <<"/", "o", "a", "i">>

\* the oaiUrl values a call is made with
HarvestUrls ==
    {Str(HostPrefix(SchemeHttp) \o OaiPath),
     Str(HostPrefix(SchemeHttps) \o OaiPath \o <<"/">>),
     Str(HostPrefix(SchemeHttpx) \o OaiPath),
     Str(HostPrefix(SchemeFtp) \o OaiPath),
     Str(<<"x">>), Str(<<"h", "t", "t", "p", ":", "/", "/">>),
     Str(<<" ">>), Str(<<>>), NullUrl, OtherUrl}

NoResult ==
    [pageCount |-> 0, totalRecordsProcessed |-> 0, success |-> FALSE,
     status |-> "pending", errorCode |-> NULL, errorMessage |-> NULL]

\* the state of a processor on which nothing has been called
Idle ==
    /\ call = "none"
    /\ pc = "idle"
    /\ resumptionToken = NoToken
    /\ pageCount = 0
    /\ totalRecordsProcessed = 0
    /\ page = EmptyBody
    /\ requests = <<>>
    /\ outcomes = <<>>
    /\ onPageCalls = <<>>
    /\ onPageOutcomes = <<>>
    /\ delays = 0
    /\ result = NoResult
    /\ escaped = NullValue

\* pageS3Result before createAndUploadXml has answered
NoS3Result == [s3Url |-> NULL, s3Key |-> NULL]

\* the handler's return value before it has returned
NoResponse ==
    [statusCode |-> 0, body |-> NULL, hasBatchItemFailures |-> FALSE,
     batchItemFailures |-> <<>>]

NoEvent == [hasRecords |-> FALSE, Records |-> <<>>]

\* the environment of a deployed function
FullEnv == [S3_BUCKET_NAME |-> TRUE, SQS_INTEGRATION_QUEUE_URL |-> TRUE]

\* no page callback running
CallbackIdle ==
    /\ cbPc = "idle"
    /\ articles = <<>>
    /\ batches = <<>>
    /\ batchIndex = 0
    /\ successCount = 0
    /\ failureCount = 0
    /\ pageS3Result = NoS3Result
    /\ pageError = NullValue

\* no handler invoked
HandlerIdle ==
    /\ phaseError = NullValue
    /\ event = NoEvent
    /\ recordIndex = 0
    /\ batchItemFailures = <<>>
    /\ response = NoResponse
    /\ hPc = "idle"
    /\ trace = <<>>
    /\ env = FullEnv

\* a processor called on its own: no handler, no collaborators
\* nothing uploaded or sent, no callback running, no handler invoked
CollaboratorsIdle ==
    /\ uploads = <<>>
    /\ sent = <<>>
    /\ CallbackIdle
    /\ HandlerIdle

OrchestratorIdle ==
    /\ journalKey = NULL
    /\ CollaboratorsIdle

Init ==
    /\ oaiUrl \in HarvestUrls
    /\ maxPages \in 1..MaxPagesBound
    /\ Idle
    /\ OrchestratorIdle
    /\ arg = NULL
    /\ out = NULL

\* ------------------------------------------------------------------ results
IdentifyCompleted(data, identifyUrl) ==
    [data |-> data, type |-> "Identify", success |-> TRUE,
     status |-> "completed", errorCode |-> NULL, errorMessage |-> NULL,
     url |-> Str(identifyUrl)]

\* a plausible slip: the failure carrying the URL of the request
IdentifyFailedResolvedUrl(error, url) ==
    [data |-> EmptyBody, type |-> "Identify", success |-> FALSE,
     status |-> "failed", errorCode |-> getErrorCode(error),
     errorMessage |-> error.message, url |-> Str(buildIdentifyUrl(url.s))]

IdentifyFailed(error, url) ==
    [data |-> EmptyBody, type |-> "Identify", success |-> FALSE,
     status |-> "failed", errorCode |-> getErrorCode(error),
     errorMessage |-> error.message, url |-> url]

ListRecordsCompleted(pages, total) ==
    [pageCount |-> pages, totalRecordsProcessed |-> total, success |-> TRUE,
     status |-> "completed", errorCode |-> NULL, errorMessage |-> NULL]

\* a plausible slip: the catch block reporting a fixed message
ListRecordsFailedFixedMessage(error) ==
    [pageCount |-> 0, totalRecordsProcessed |-> 0, success |-> FALSE,
     status |-> "failed", errorCode |-> getErrorCode(error),
     errorMessage |-> "ListRecords failed"]

ListRecordsFailed(error) ==
    [pageCount |-> 0, totalRecordsProcessed |-> 0, success |-> FALSE,
     status |-> "failed", errorCode |-> getErrorCode(error),
     errorMessage |-> error.message]

\* Reading error.message of null or undefined throws a TypeError out of the
\* catch block, after getErrorCode(error) has returned.
MessageOfNull ==
    ErrorObject("TypeError", NULL, 0,
                "Cannot read properties of null (reading 'message')")

\* the end of a catch block that builds the failure object res from error
Catch(error, res) ==
    IF error.kind = "null"
    THEN /\ pc' = "raised"
         /\ escaped' = MessageOfNull
         /\ UNCHANGED result
    ELSE /\ pc' = "returned"
         /\ result' = res
         /\ UNCHANGED escaped

Return(res) ==
    /\ pc' = "returned"
    /\ result' = res
    /\ UNCHANGED escaped

\* ------------------------------------------------------------------ fetch
HttpErrorMessage(status) == "HTTP error " \o ToString(status)
MsgEmpty == "Empty response received from OAI endpoint"
MsgParse == "XML parse error"

\* a plausible slip: the status of the response not looked at
ResponseErrorNoStatus(outcome) ==
    IF outcome.raised THEN outcome.error
    ELSE IF outcome.data.kind = "empty" THEN NewError(MsgEmpty)
    ELSE NullValue

\* axios.get followed by the two checks on the response: the value thrown,
\* or NullValue when the response is handed on
ResponseError(outcome) ==
    IF outcome.raised THEN outcome.error
    ELSE IF outcome.status # 200 THEN NewError(HttpErrorMessage(outcome.status))
    ELSE IF outcome.data.kind = "empty" THEN NewError(MsgEmpty)
    ELSE NullValue

\* ------------------------------------------------------------------ Identify
\* processIdentify up to its await of axios.get
IdentifyCalled ==
    /\ pc = "idle"
    /\ call' = "Identify"
    /\ LET invalid == validateOaiUrl(oaiUrl) IN
       IF invalid.kind = "error"
       THEN /\ Catch(invalid, IdentifyFailed(invalid, oaiUrl))
            /\ UNCHANGED requests
       ELSE /\ requests' = Append(requests, buildIdentifyUrl(oaiUrl.s))
            /\ pc' = "id_fetch"
            /\ UNCHANGED <<result, escaped>>
    /\ UNCHANGED <<oaiUrl, maxPages, resumptionToken, pageCount,
                   totalRecordsProcessed, page, outcomes, onPageCalls,
                   onPageOutcomes, delays, arg, out>>

\* processIdentify called on a processor of its own
CallIdentify ==
    /\ IdentifyCalled
    /\ UNCHANGED orchestratorVars

\* processIdentify from the answer outcome of axios.get to its return
IdentifyFetched(outcome) ==
    /\ pc = "id_fetch"
    /\ outcomes' = Append(outcomes, outcome)
    /\ LET error == ResponseError(outcome) IN
       IF error.kind = "error"
       THEN Catch(error, IdentifyFailed(error, oaiUrl))
       ELSE Return(IdentifyCompleted(outcome.data, requests[Len(requests)]))
    /\ UNCHANGED <<oaiUrl, maxPages, call, resumptionToken, pageCount,
                   totalRecordsProcessed, page, requests, onPageCalls,
                   onPageOutcomes, delays, arg, out>>

IdentifyFetchReturns ==
    /\ \E outcome \in TransportOutcomes : IdentifyFetched(outcome)
    /\ UNCHANGED orchestratorVars

\* ------------------------------------------------------------------ ListRecords
\* a plausible slip: a single <record>, which the parser hands over as an
\* object and not as an array, counted by its (missing) length
CountRecordsArrayOnly(listRecords) ==
    IF listRecords.recShape = "array" THEN listRecords.recN ELSE 0

\* recordsInPage of processListRecordsPage
CountRecords(listRecords) ==
    IF listRecords.recShape = "absent" THEN 0
    ELSE IF listRecords.recShape = "array" THEN listRecords.recN
    ELSE 1

\* a plausible slip: the attributes of the element not looked at
extractResumptionTokenTextOnly(listRecords) ==
    LET token == listRecords.resumptionToken IN
    IF token.t = "undefined" \/ (token.t = "str" /\ token.s = <<>>)
    THEN NoToken
    ELSE IF token.t = "str" THEN token.s
    ELSE IF token.hasText /\ token.text # <<>> THEN token.text
    ELSE NoToken

\* extractResumptionTokenFromParsed: the token, or NoToken for null
extractResumptionTokenFromParsed(listRecords) ==
    LET token == listRecords.resumptionToken IN
    IF token.t = "undefined" \/ (token.t = "str" /\ token.s = <<>>)
    THEN NoToken
    ELSE IF token.t = "str" THEN token.s
    ELSE IF token.hasText /\ token.text # <<>> THEN token.text
    ELSE IF /\ "resumptionToken" \in DOMAIN token.attrs
            /\ token.attrs["resumptionToken"] # <<>>
    THEN token.attrs["resumptionToken"]
    ELSE NoToken

\* a plausible slip: the first request repeated for every page
RequestUrlFirstOnly(website, token) == buildListRecordsUrl(website)

\* requestUrl of the loop body
RequestUrl(website, token) ==
    IF token # NoToken
    THEN buildResumptionTokenUrl(website, token)
    ELSE buildListRecordsUrl(website)

\* a plausible slip: the cap compared with > instead of >=
ReachedCapOffByOne(pages, cap) == pages > cap

\* the safety check of the loop
ReachedCap(pages, cap) == pages >= cap

\* the head of a loop iteration: count the page and issue its request
FetchPage(token) ==
    /\ pageCount' = pageCount + 1
    /\ requests' = Append(requests, RequestUrl(oaiUrl.s, token))
    /\ pc' = "lr_fetch"
    /\ UNCHANGED <<result, escaped>>

\* a plausible slip: the stop at the page cap told apart in the result
AfterPaginationReportingCap(token, total) ==
    /\ resumptionToken' = token
    /\ IF ReachedCap(pageCount, maxPages) \/ token = NoToken
       THEN /\ Return([ListRecordsCompleted(pageCount, total) EXCEPT
                          !.status = IF token = NoToken
                                     THEN "completed" ELSE "truncated"])
            /\ UNCHANGED <<pageCount, requests>>
       ELSE FetchPage(token)

\* the end of an iteration deciding on the page cap alone
AfterPaginationUpToCap(token, total) ==
    /\ resumptionToken' = token
    /\ IF ReachedCap(pageCount, maxPages)
       THEN /\ Return(ListRecordsCompleted(pageCount, total))
            /\ UNCHANGED <<pageCount, requests>>
       ELSE FetchPage(token)

\* the tail of a loop iteration, once handlePagination has returned token:
\* the safety check, the loop condition, and the return after the loop
AfterPagination(token, total) ==
    /\ resumptionToken' = token
    /\ IF ReachedCap(pageCount, maxPages) \/ token = NoToken
       THEN /\ Return(ListRecordsCompleted(pageCount, total))
            /\ UNCHANGED <<pageCount, requests>>
       ELSE FetchPage(token)

\* processListRecords up to its first await of axios.get
ListRecordsCalled ==
    /\ pc = "idle"
    /\ call' = "ListRecords"
    /\ LET invalid == validateOaiUrl(oaiUrl) IN
       IF invalid.kind = "error"
       THEN /\ Catch(invalid, ListRecordsFailed(invalid))
            /\ UNCHANGED <<pageCount, requests>>
       ELSE FetchPage(NoToken)
    /\ UNCHANGED <<oaiUrl, maxPages, resumptionToken, totalRecordsProcessed,
                   page, outcomes, onPageCalls, onPageOutcomes, delays,
                   arg, out>>

\* processListRecords called on a processor of its own
CallListRecords ==
    /\ ListRecordsCalled
    /\ UNCHANGED orchestratorVars

\* a plausible slip: the count of the page passed on as the running total
ListRecordsFetchedCountOfPage(outcome) ==
    /\ pc = "lr_fetch"
    /\ outcomes' = Append(outcomes, outcome)
    /\ LET error == ResponseError(outcome)
           data == outcome.data
       IN
       IF error.kind = "error"
       THEN /\ Catch(error, ListRecordsFailed(error))
            /\ UNCHANGED <<resumptionToken, pageCount, page, requests,
                           onPageCalls>>
       ELSE IF data.kind = "malformed"
       THEN /\ Catch(NewError(MsgParse), ListRecordsFailed(NewError(MsgParse)))
            /\ UNCHANGED <<resumptionToken, pageCount, page, requests,
                           onPageCalls>>
       ELSE IF ~data.hasListRecords
       THEN /\ AfterPagination(NoToken, totalRecordsProcessed + 0)
            /\ UNCHANGED <<page, onPageCalls>>
       ELSE /\ page' = data
            /\ onPageCalls' = Append(onPageCalls,
                  [pageNumber |-> pageCount,
                   recordsInPage |-> CountRecords(data),
                   recordsProcessed |-> CountRecords(data)])
            /\ pc' = "lr_onPage"
            /\ UNCHANGED <<resumptionToken, pageCount, requests, result,
                           escaped>>
    /\ UNCHANGED <<oaiUrl, maxPages, call, totalRecordsProcessed,
                   onPageOutcomes, delays, arg, out>>

\* from the answer outcome of axios.get to the await of pageCallback; a page
\* with no ListRecords element runs on to the end of the iteration
ListRecordsFetched(outcome) ==
    /\ pc = "lr_fetch"
    /\ outcomes' = Append(outcomes, outcome)
    /\ LET error == ResponseError(outcome)
           data == outcome.data
       IN
       IF error.kind = "error"
       THEN /\ Catch(error, ListRecordsFailed(error))
            /\ UNCHANGED <<resumptionToken, pageCount, page, requests,
                           onPageCalls>>
       ELSE IF data.kind = "malformed"
       THEN /\ Catch(NewError(MsgParse), ListRecordsFailed(NewError(MsgParse)))
            /\ UNCHANGED <<resumptionToken, pageCount, page, requests,
                           onPageCalls>>
       ELSE IF ~data.hasListRecords
       THEN /\ AfterPagination(NoToken, totalRecordsProcessed + 0)
            /\ UNCHANGED <<page, onPageCalls>>
       ELSE /\ page' = data
            /\ onPageCalls' = Append(onPageCalls,
                  [pageNumber |-> pageCount,
                   recordsInPage |-> CountRecords(data),
                   recordsProcessed |->
                       totalRecordsProcessed + CountRecords(data)])
            /\ pc' = "lr_onPage"
            /\ UNCHANGED <<resumptionToken, pageCount, requests, result,
                           escaped>>
    /\ UNCHANGED <<oaiUrl, maxPages, call, totalRecordsProcessed,
                   onPageOutcomes, delays, arg, out>>

ListRecordsFetchReturns ==
    /\ \E outcome \in TransportOutcomes : ListRecordsFetched(outcome)
    /\ UNCHANGED orchestratorVars

\* the end of pageCallback with the delay started and not awaited
OnPageReturnedNotAwaitingDelay(cb) ==
    /\ pc = "lr_onPage"
    /\ onPageOutcomes' = Append(onPageOutcomes, cb)
    /\ IF ~cb.ok
       THEN /\ Catch(cb.error, ListRecordsFailed(cb.error))
            /\ UNCHANGED <<resumptionToken, pageCount,
                           totalRecordsProcessed, requests, delays>>
       ELSE LET newResumptionToken == extractResumptionTokenFromParsed(page)
                total == totalRecordsProcessed + CountRecords(page)
            IN
            /\ totalRecordsProcessed' = total
            /\ delays' = IF newResumptionToken # NoToken
                         THEN delays + 1 ELSE delays
            /\ AfterPagination(newResumptionToken, total)
    /\ UNCHANGED <<oaiUrl, maxPages, call, page, outcomes, onPageCalls,
                   arg, out>>

\* from the end cb of pageCallback to the next await: the delay when the
\* page has a token, else the end of the iteration
OnPageReturned(cb) ==
    /\ pc = "lr_onPage"
    /\ onPageOutcomes' = Append(onPageOutcomes, cb)
    /\ IF ~cb.ok
       THEN /\ Catch(cb.error, ListRecordsFailed(cb.error))
            /\ UNCHANGED <<resumptionToken, pageCount,
                           totalRecordsProcessed, requests, delays>>
       ELSE LET newResumptionToken == extractResumptionTokenFromParsed(page)
                total == totalRecordsProcessed + CountRecords(page)
            IN
            /\ totalRecordsProcessed' = total
            /\ IF newResumptionToken # NoToken
               THEN /\ delays' = delays + 1
                    /\ pc' = "lr_delay"
                    /\ UNCHANGED <<resumptionToken, pageCount, requests,
                                   result, escaped>>
               ELSE /\ AfterPagination(NoToken, total)
                    /\ UNCHANGED delays
    /\ UNCHANGED <<oaiUrl, maxPages, call, page, outcomes, onPageCalls,
                   arg, out>>

\* a pageCallback whose body is not known to the processor
OnPageReturns ==
    /\ \E cb \in CallbackOutcomes : OnPageReturned(cb)
    /\ UNCHANGED orchestratorVars

\* the delay of handlePagination is over: the end of the iteration
DelayPassed ==
    /\ pc = "lr_delay"
    /\ AfterPagination(extractResumptionTokenFromParsed(page),
                       totalRecordsProcessed)
    /\ UNCHANGED <<oaiUrl, maxPages, call, totalRecordsProcessed, page,
                   outcomes, onPageCalls, onPageOutcomes, delays, arg, out>>

DelayElapsed ==
    /\ DelayPassed
    /\ UNCHANGED orchestratorVars

Next ==
    \/ CallIdentify
    \/ IdentifyFetchReturns
    \/ CallListRecords
    \/ ListRecordsFetchReturns
    \/ OnPageReturns
    \/ DelayElapsed

Spec == Init /\ [][Next]_vars

\* The awaited operations of a call do not hang: axios.get settles (the
\* configured timeout rejects it at the latest), the page callback settles
\* and the timer of delay fires.
SpecLive ==
    /\ Spec
    /\ WF_vars(IdentifyFetchReturns)
    /\ WF_vars(ListRecordsFetchReturns)
    /\ WF_vars(OnPageReturns)
    /\ WF_vars(DelayElapsed)

\* ------------------------------------------------------------------ getErrorCode on its own
ErrorNames ==
    {NULL, "Error", "AxiosError", "TypeError", "SyntaxError", "ReferenceError"}
ErrorCodes ==
    NetworkCodes \cup {NULL, "ECONNABORTED", "ERR_NETWORK", "ERR_BAD_REQUEST"}
ErrorStatuses == {0, 302, 404, 500, 503, 600}

ErrorInputs ==
    {NullValue}
        \cup {ErrorObject(n, c, s, "failed") :
                n \in ErrorNames, c \in ErrorCodes, s \in ErrorStatuses}

InitClassify ==
    /\ oaiUrl = NullUrl
    /\ maxPages = 1
    /\ Idle
    /\ OrchestratorIdle
    /\ arg \in ErrorInputs
    /\ out = NULL

\* processor.getErrorCode(arg)
ApplyGetErrorCode ==
    /\ pc = "idle"
    /\ pc' = "applied"
    /\ out' = getErrorCode(arg)
    /\ UNCHANGED <<oaiUrl, maxPages, call, resumptionToken, pageCount,
                   totalRecordsProcessed, page, requests, outcomes,
                   onPageCalls, onPageOutcomes, delays, result, escaped, arg>>
    /\ UNCHANGED orchestratorVars

NextClassify == ApplyGetErrorCode

SpecClassify == InitClassify /\ [][NextClassify]_vars

\* ------------------------------------------------------------------ URL builders on their own
PathChars == {"/", "o", "a", "i"}
Paths == UNION {[1..n -> PathChars] : n \in 0..MaxPathLen}

\* absolute http(s) URLs: scheme://h followed by a path
Websites == {HostPrefix(s) \o p : s \in {SchemeHttp, SchemeHttps}, p \in Paths}

InitUrl ==
    /\ oaiUrl = NullUrl
    /\ maxPages = 1
    /\ Idle
    /\ OrchestratorIdle
    /\ arg \in Websites
    /\ out = [fn |-> "none", plain |-> <<>>, slash |-> <<>>]

UrlUnchanged ==
    /\ UNCHANGED <<oaiUrl, maxPages, call, resumptionToken, pageCount,
                   totalRecordsProcessed, page, requests, outcomes,
                   onPageCalls, onPageOutcomes, delays, result, escaped, arg>>
    /\ UNCHANGED orchestratorVars

\* buildIdentifyUrl(u) and buildIdentifyUrl(u + "/")
ApplyBuildIdentifyUrl ==
    /\ pc = "idle"
    /\ pc' = "applied"
    /\ out' = [fn |-> "buildIdentifyUrl",
               plain |-> buildIdentifyUrl(arg),
               slash |-> buildIdentifyUrl(arg \o <<"/">>)]
    /\ UrlUnchanged

\* buildListRecordsUrl(u) and buildListRecordsUrl(u + "/")
ApplyBuildListRecordsUrl ==
    /\ pc = "idle"
    /\ pc' = "applied"
    /\ out' = [fn |-> "buildListRecordsUrl",
               plain |-> buildListRecordsUrl(arg),
               slash |-> buildListRecordsUrl(arg \o <<"/">>)]
    /\ UrlUnchanged

NextUrl ==
    \/ ApplyBuildIdentifyUrl
    \/ ApplyBuildListRecordsUrl

SpecUrl == InitUrl /\ [][NextUrl]_vars

\* ------------------------------------------------------------------ extractResumptionTokenFromParsed on its own
\* the shapes of resumptionToken, those no endpoint of TokenFields answers
\* with included: the token in an attribute, an empty attribute, text and
\* attribute together
AllTokenFields ==
    TokenFields
        \cup {<<"attr", TokenA>>, <<"attr", NoToken>>, <<"both", TokenB>>}

\* a ListRecords element with one record and a resumptionToken of each shape
TokenPages ==
    {Body("xml", TRUE, "single", 1, k[1], k[2]) : k \in AllTokenFields}

InitToken ==
    /\ oaiUrl \in HarvestUrls
    /\ maxPages \in 1..MaxPagesBound
    /\ Idle
    /\ OrchestratorIdle
    /\ arg \in TokenPages
    /\ out = [fn |-> "none", value |-> NoToken]

\* extractResumptionTokenFromParsed(arg)
ApplyExtractResumptionToken ==
    /\ out.fn = "none"
    /\ out' = [fn |-> "extractResumptionTokenFromParsed",
               value |-> extractResumptionTokenFromParsed(arg)]
    /\ UNCHANGED harvestVars
    /\ UNCHANGED arg
    /\ UNCHANGED orchestratorVars

\* the endpoint answers every request with the page arg
TokenPageFetched ==
    /\ ListRecordsFetched(Response(200, arg))
    /\ UNCHANGED orchestratorVars

\* the page callback returns
TokenPageHandled ==
    /\ OnPageReturned(CallbackOk)
    /\ UNCHANGED orchestratorVars

NextToken ==
    \/ ApplyExtractResumptionToken
    \/ CallListRecords
    \/ TokenPageFetched
    \/ TokenPageHandled
    \/ DelayElapsed

SpecToken == InitToken /\ [][NextToken]_vars

\* ------------------------------------------------------------------ collaborators
\* what createAndUploadXml resolves with for the file label
S3Result(label) ==
    [s3Url |-> "https://bucket.s3.amazonaws.com/" \o label \o ".xml",
     s3Key |-> label \o ".xml"]

MsgUpload == "Failed to upload to S3: Access Denied"
MsgSend == "Failed to send message to SQS: Service Unavailable"
MsgInvalidListRecords ==
    "Failed to parse ListRecords XML: Invalid ListRecords XML structure"
MsgUnparsable == "Failed to parse ListRecords XML: Non-whitespace before first tag"

\* what createAndUploadXml and sendMessage reject with
UploadError == NewError(MsgUpload)
SendError == NewError(MsgSend)

\* one call of a collaborator and how it ended
Upload(label, ok) == [label |-> label, ok |-> ok]
Send(message, ok) == [message |-> message, ok |-> ok]

\* what parseListRecordsXml rejects with for a page, NullValue when it
\* resolves
ParseError(pageXml) ==
    IF pageXml.kind = "malformed" THEN NewError(MsgUnparsable)
    ELSE IF ~pageXml.hasListRecords THEN NewError(MsgInvalidListRecords)
    ELSE NullValue

\* what parseListRecordsXml resolves with: one article for each record of the
\* page, the article of record i written i
ArticlesOf(pageXml) == [i \in 1..CountRecords(pageXml) |-> i]

\* ------------------------------------------------------------------ messages
createErrorMessage(key, url, messageType, errorCode, errorMessage) ==
    [journalKey |-> key, oaiUrl |-> url, s3Url |-> NULL, s3Key |-> NULL,
     messageType |-> messageType, source |-> "scraping-service",
     success |-> FALSE, errorCode |-> errorCode,
     errorMessage |-> errorMessage]

\* the arguments of the pageCallback call that is running
CallArgs == onPageCalls[Len(onPageCalls)]

ListRecordsLabel(key, pageNumber) ==
    key \o "-listrecords-page-" \o ToString(pageNumber)

BATCH_SIZE == 50

Min(a, b) == IF a <= b THEN a ELSE b

RECURSIVE SlicesDroppingShort(_, _)
\* a plausible slip: a last batch shorter than BATCH_SIZE left out
SlicesDroppingShort(list, i) ==
    IF i + BATCH_SIZE > Len(list) THEN <<>>
    ELSE <<SubSeq(list, i + 1, i + BATCH_SIZE)>>
             \o SlicesDroppingShort(list, i + BATCH_SIZE)

RECURSIVE Slices(_, _)
\* the loop pushing list.slice(i, i + BATCH_SIZE) from index i on
Slices(list, i) ==
    IF i >= Len(list) THEN <<>>
    ELSE <<SubSeq(list, i + 1, Min(i + BATCH_SIZE, Len(list)))>>
             \o Slices(list, i + BATCH_SIZE)

\* the message of batches[index], index counted from 0
ArticleBatchMessage(index) ==
    [journalKey |-> journalKey, oaiUrl |-> oaiUrl,
     s3Url |-> pageS3Result.s3Url, s3Key |-> pageS3Result.s3Key,
     messageType |-> "ArticleBatch", source |-> "scraping-service",
     pageNumber |-> CallArgs.pageNumber, batchNumber |-> index + 1,
     totalBatches |-> Len(batches),
     articlesInBatch |-> Len(batches[index + 1]),
     totalArticlesInPage |-> Len(articles),
     totalRecordsProcessed |-> CallArgs.recordsProcessed,
     success |-> TRUE, errorCode |-> NULL, errorMessage |-> NULL,
     articles |-> batches[index + 1]]

\* the message of the callback's catch block
PageFailureMessage(error) ==
    [journalKey |-> journalKey, oaiUrl |-> oaiUrl, s3Url |-> NULL,
     s3Key |-> NULL, messageType |-> "ListRecords",
     source |-> "scraping-service", success |-> FALSE,
     errorCode |-> "PAGE_PROCESSING_FAILED", errorMessage |-> error.message,
     pageNumber |-> CallArgs.pageNumber,
     recordsInPage |-> CallArgs.recordsInPage,
     totalRecordsProcessed |-> CallArgs.recordsProcessed]

\* ------------------------------------------------------------------ page callback
\* how a pageCallback call that stands at position ends for its caller
CallbackEnd(position) ==
    IF position = "returned" THEN CallbackOk ELSE CallbackRaised(SendError)

CallbackEnded(position) == position \in {"returned", "raised"}

\* the callback up to its await of createAndUploadXml
CallbackCalled ==
    /\ cbPc' = "upload"
    /\ articles' = <<>>
    /\ batches' = <<>>
    /\ batchIndex' = 0
    /\ successCount' = 0
    /\ failureCount' = 0
    /\ pageS3Result' = NoS3Result
    /\ pageError' = NullValue
    /\ UNCHANGED <<uploads, sent>>

\* a plausible slip: the page parsed and sent although its upload failed
UploadAnsweredUnchecked(ok) ==
    /\ cbPc = "upload"
    /\ uploads' = Append(uploads,
          Upload(ListRecordsLabel(journalKey, CallArgs.pageNumber), ok))
    /\ cbPc' = "parse"
    /\ UNCHANGED <<journalKey, sent, articles, batches, batchIndex,
                   successCount, failureCount, pageS3Result, pageError>>

\* from the answer of createAndUploadXml to the await of parseListRecordsXml,
\* or of the sendMessage of the catch block
UploadAnswered(ok) ==
    /\ cbPc = "upload"
    /\ LET label == ListRecordsLabel(journalKey, CallArgs.pageNumber) IN
       /\ uploads' = Append(uploads, Upload(label, ok))
       /\ IF ok
          THEN /\ pageS3Result' = S3Result(label)
               /\ cbPc' = "parse"
               /\ UNCHANGED pageError
          ELSE /\ pageError' = UploadError
               /\ cbPc' = "fail_send"
               /\ UNCHANGED pageS3Result
    /\ UNCHANGED <<journalKey, sent, articles, batches, batchIndex,
                   successCount, failureCount>>

\* from the answer of parseListRecordsXml, through the batching loop, to the
\* await of the first sendMessage, or to the end when there is no batch
ParseAnswered ==
    /\ cbPc = "parse"
    /\ IF ParseError(page).kind = "error"
       THEN /\ pageError' = ParseError(page)
            /\ cbPc' = "fail_send"
            /\ UNCHANGED <<articles, batches>>
       ELSE /\ articles' = ArticlesOf(page)
            /\ batches' = Slices(ArticlesOf(page), 0)
            /\ cbPc' = IF 0 < Len(batches') THEN "send" ELSE "returned"
            /\ UNCHANGED pageError
    /\ UNCHANGED <<journalKey, uploads, sent, batchIndex, successCount,
                   failureCount, pageS3Result>>

\* a plausible slip: a failed batch send left to the catch block of the page
BatchSendAnsweredUncaught(ok) ==
    /\ cbPc = "send"
    /\ sent' = Append(sent, Send(ArticleBatchMessage(batchIndex), ok))
    /\ IF ok
       THEN /\ successCount' = successCount + Len(batches[batchIndex + 1])
            /\ batchIndex' = batchIndex + 1
            /\ cbPc' = IF batchIndex + 1 < Len(batches)
                       THEN "send" ELSE "returned"
            /\ UNCHANGED pageError
       ELSE /\ pageError' = SendError
            /\ cbPc' = "fail_send"
            /\ UNCHANGED <<successCount, batchIndex>>
    /\ UNCHANGED <<journalKey, uploads, articles, batches, failureCount,
                   pageS3Result>>

\* a plausible slip: the articles of a failed send not counted
BatchSendAnsweredCountingSent(ok) ==
    /\ cbPc = "send"
    /\ sent' = Append(sent, Send(ArticleBatchMessage(batchIndex), ok))
    /\ IF ok
       THEN /\ successCount' = successCount + Len(batches[batchIndex + 1])
            /\ UNCHANGED failureCount
       ELSE UNCHANGED <<successCount, failureCount>>
    /\ batchIndex' = batchIndex + 1
    /\ cbPc' = IF batchIndex + 1 < Len(batches) THEN "send" ELSE "returned"
    /\ UNCHANGED <<journalKey, uploads, articles, batches, pageS3Result,
                   pageError>>

\* from the answer of the sendMessage of batches[batchIndex] to the await of
\* the next one, or to the end after the last
BatchSendAnswered(ok) ==
    /\ cbPc = "send"
    /\ sent' = Append(sent, Send(ArticleBatchMessage(batchIndex), ok))
    /\ IF ok
       THEN /\ successCount' = successCount + Len(batches[batchIndex + 1])
            /\ UNCHANGED failureCount
       ELSE /\ failureCount' = failureCount + Len(batches[batchIndex + 1])
            /\ UNCHANGED successCount
    /\ batchIndex' = batchIndex + 1
    /\ cbPc' = IF batchIndex + 1 < Len(batches) THEN "send" ELSE "returned"
    /\ UNCHANGED <<journalKey, uploads, articles, batches, pageS3Result,
                   pageError>>

\* the answer of the sendMessage of the catch block: the callback returns,
\* or rejects with what sendMessage rejected with
FailureSendAnswered(ok) ==
    /\ cbPc = "fail_send"
    /\ sent' = Append(sent, Send(PageFailureMessage(pageError), ok))
    /\ cbPc' = IF ok THEN "returned" ELSE "raised"
    /\ UNCHANGED <<journalKey, uploads, articles, batches, batchIndex,
                   successCount, failureCount, pageS3Result, pageError>>

\* ------------------------------------------------------------------ the page callback on its own
\* the page of n records as the parser hands it over
PageOfSize(n) ==
    Body("xml", TRUE,
         IF n = 0 THEN "absent" ELSE IF n = 1 THEN "single" ELSE "array",
         n, "absent", NoToken)

CallbackPages ==
    {MalformedBody, NoListRecordsBody}
        \cup {PageOfSize(n) : n \in 0..MaxArticles}

GoodUrl == Str(HostPrefix(SchemeHttp) \o OaiPath)

InitPage ==
    /\ oaiUrl = GoodUrl
    /\ maxPages = 1
    /\ Idle
    /\ OrchestratorIdle
    /\ arg \in CallbackPages
    /\ out = NULL

\* on its own the callback leaves the processor, the handler and the
\* argument as they are
PageUnchanged ==
    UNCHANGED <<oaiUrl, maxPages, call, pc, resumptionToken, pageCount,
                totalRecordsProcessed, requests, outcomes, delays, result,
                escaped, arg, out, phaseError, event, recordIndex,
                batchItemFailures, response, hPc, trace, env>>

\* the end of a callback call, as its caller sees it
NotePageEnd ==
    onPageOutcomes' =
        IF CallbackEnded(cbPc')
        THEN Append(onPageOutcomes, CallbackEnd(cbPc'))
        ELSE onPageOutcomes

\* pageCallback(arg, pageNumber, recordsInPage, recordsProcessed)
CallPageCallback ==
    /\ cbPc = "idle"
    /\ \E pageNumber \in 1..MaxPageNumber, before \in 0..MaxBefore :
        /\ page' = arg
        /\ onPageCalls' = Append(onPageCalls,
              [pageNumber |-> pageNumber,
               recordsInPage |-> CountRecords(arg),
               recordsProcessed |-> before + CountRecords(arg)])
    /\ CallbackCalled
    /\ journalKey' = "journal-1"
    /\ UNCHANGED onPageOutcomes
    /\ PageUnchanged

PageUploadAnswered ==
    /\ \E ok \in BOOLEAN : UploadAnswered(ok)
    /\ NotePageEnd
    /\ UNCHANGED <<page, onPageCalls>>
    /\ PageUnchanged

PageParseAnswered ==
    /\ ParseAnswered
    /\ NotePageEnd
    /\ UNCHANGED <<page, onPageCalls>>
    /\ PageUnchanged

PageBatchSendAnswered ==
    /\ \E ok \in BOOLEAN : BatchSendAnswered(ok)
    /\ NotePageEnd
    /\ UNCHANGED <<page, onPageCalls>>
    /\ PageUnchanged

PageFailureSendAnswered ==
    /\ \E ok \in BOOLEAN : FailureSendAnswered(ok)
    /\ NotePageEnd
    /\ UNCHANGED <<page, onPageCalls>>
    /\ PageUnchanged

NextPage ==
    \/ CallPageCallback
    \/ PageUploadAnswered
    \/ PageParseAnswered
    \/ PageBatchSendAnswered
    \/ PageFailureSendAnswered

SpecPage == InitPage /\ [][NextPage]_vars

\* ------------------------------------------------------------------ ListRecords phase
PhaseEvent(phase, at) == [item |-> recordIndex, phase |-> phase, at |-> at]

\* the failure message of a phase
PhaseFailureMessage(messageType, errorCode, errorMessage) ==
    createErrorMessage(journalKey, oaiUrl, messageType, errorCode,
                       errorMessage)

\* processListRecordsPhase up to its await of processListRecords
ListRecordsPhaseCalled ==
    /\ hPc' = "lr_call"
    /\ phaseError' = NullValue
    /\ trace' = Append(trace, PhaseEvent("ListRecords", "start"))

\* from the end of processListRecords to the await of a sendMessage, or to
\* the end of the phase
ListRecordsAnswered ==
    /\ hPc = "lr_call"
    /\ pc \in {"returned", "raised"}
    /\ IF pc = "raised"
       THEN /\ phaseError' = escaped
            /\ hPc' = "lr_catch_send"
            /\ UNCHANGED trace
       ELSE IF ~result.success
       THEN /\ hPc' = "lr_fail_send"
            /\ UNCHANGED <<phaseError, trace>>
       ELSE /\ hPc' = "lr_done"
            /\ trace' = Append(trace, PhaseEvent("ListRecords", "end"))
            /\ UNCHANGED phaseError
    /\ UNCHANGED sent

\* a plausible slip: the failure reported under a code of the phase's own
ListRecordsFailureSendFixedCode(ok) ==
    /\ hPc = "lr_fail_send"
    /\ sent' = Append(sent,
          Send(PhaseFailureMessage("ListRecords", "LISTRECORDS_FAILED",
                                   result.errorMessage), ok))
    /\ IF ok
       THEN /\ hPc' = "lr_done"
            /\ trace' = Append(trace, PhaseEvent("ListRecords", "end"))
            /\ UNCHANGED phaseError
       ELSE /\ phaseError' = SendError
            /\ hPc' = "lr_catch_send"
            /\ UNCHANGED trace

\* the answer of the sendMessage of the failure of processListRecords
ListRecordsFailureSendAnswered(ok) ==
    /\ hPc = "lr_fail_send"
    /\ sent' = Append(sent,
          Send(PhaseFailureMessage("ListRecords", result.errorCode,
                                   result.errorMessage), ok))
    /\ IF ok
       THEN /\ hPc' = "lr_done"
            /\ trace' = Append(trace, PhaseEvent("ListRecords", "end"))
            /\ UNCHANGED phaseError
       ELSE /\ phaseError' = SendError
            /\ hPc' = "lr_catch_send"
            /\ UNCHANGED trace

\* the answer of the sendMessage of the catch block: the phase returns, or
\* rejects with what sendMessage rejected with
ListRecordsCatchSendAnswered(ok) ==
    /\ hPc = "lr_catch_send"
    /\ sent' = Append(sent,
          Send(PhaseFailureMessage("ListRecords",
                                   "LISTRECORDS_PROCESSING_ERROR",
                                   phaseError.message), ok))
    /\ hPc' = IF ok THEN "lr_done" ELSE "lr_raised"
    /\ trace' = Append(trace,
          PhaseEvent("ListRecords", IF ok THEN "end" ELSE "raised"))
    /\ UNCHANGED phaseError

\* ------------------------------------------------------------------ the ListRecords phase of one work item
\* page sizes that give no batch, one batch, and a last batch of one article
\* after MaxFullBatches full ones
PhasePageSizes ==
    {0, 1} \cup {k * BATCH_SIZE + 1 : k \in 1..MaxFullBatches}

PhaseBodies ==
    {Body("xml", TRUE, PageOfSize(n).recShape, n, k[1], k[2]) :
        n \in PhasePageSizes,
        k \in {<<"absent", NoToken>>, <<"string", TokenA>>}}

\* what the endpoint of the work item answers with
PhaseOutcomes ==
    {Raised(ErrorObject("AxiosError", "ECONNREFUSED", 0, "connect ECONNREFUSED"))}
        \cup {Response(200, d) : d \in PhaseBodies}

PhaseUrls == {GoodUrl, Str(<<"x">>)}

InitPhase ==
    /\ oaiUrl \in PhaseUrls
    /\ maxPages \in 1..MaxPhasePages
    /\ Idle
    /\ journalKey = "journal-1"
    /\ CollaboratorsIdle
    /\ arg = NULL
    /\ out = NULL

\* the event and what the handler keeps of it
EventUnchanged ==
    UNCHANGED <<event, recordIndex, batchItemFailures, response, env>>

PhaseCallListRecords ==
    /\ hPc = "idle"
    /\ ListRecordsPhaseCalled
    /\ ListRecordsCalled
    /\ EventUnchanged
    /\ UNCHANGED <<journalKey, uploads, sent, callbackVars>>

PhaseFetchReturns ==
    /\ \E outcome \in PhaseOutcomes : ListRecordsFetched(outcome)
    /\ UNCHANGED orchestratorVars

\* processListRecordsPage calls the callback of createPageCallback
PhaseCallbackCalled ==
    /\ pc = "lr_onPage"
    /\ cbPc = "idle"
    /\ CallbackCalled
    /\ UNCHANGED <<harvestVars, arg, out, journalKey, handlerVars>>

PhaseUploadAnswered ==
    /\ \E ok \in BOOLEAN : UploadAnswered(ok)
    /\ UNCHANGED <<harvestVars, arg, out, handlerVars>>

PhaseParseAnswered ==
    /\ ParseAnswered
    /\ UNCHANGED <<harvestVars, arg, out, handlerVars>>

PhaseBatchSendAnswered ==
    /\ \E ok \in BOOLEAN : BatchSendAnswered(ok)
    /\ UNCHANGED <<harvestVars, arg, out, handlerVars>>

PhaseFailureSendAnswered ==
    /\ \E ok \in BOOLEAN : FailureSendAnswered(ok)
    /\ UNCHANGED <<harvestVars, arg, out, handlerVars>>

\* the callback has ended: processListRecordsPage goes on
PhaseOnPageReturns ==
    /\ CallbackEnded(cbPc)
    /\ OnPageReturned(CallbackEnd(cbPc))
    /\ cbPc' = "idle"
    /\ UNCHANGED <<journalKey, uploads, sent, articles, batches, batchIndex,
                   successCount, failureCount, pageS3Result, pageError,
                   handlerVars>>

PhaseDelayElapsed ==
    /\ DelayPassed
    /\ UNCHANGED orchestratorVars

PhaseListRecordsAnswered ==
    /\ ListRecordsAnswered
    /\ EventUnchanged
    /\ UNCHANGED <<harvestVars, arg, out, journalKey, uploads, callbackVars>>

PhaseResultSendAnswered ==
    /\ \E ok \in BOOLEAN : ListRecordsFailureSendAnswered(ok)
    /\ EventUnchanged
    /\ UNCHANGED <<harvestVars, arg, out, journalKey, uploads, callbackVars>>

PhaseCatchSendAnswered ==
    /\ \E ok \in BOOLEAN : ListRecordsCatchSendAnswered(ok)
    /\ EventUnchanged
    /\ UNCHANGED <<harvestVars, arg, out, journalKey, uploads, callbackVars>>

NextPhase ==
    \/ PhaseCallListRecords
    \/ PhaseFetchReturns
    \/ PhaseCallbackCalled
    \/ PhaseUploadAnswered
    \/ PhaseParseAnswered
    \/ PhaseBatchSendAnswered
    \/ PhaseFailureSendAnswered
    \/ PhaseOnPageReturns
    \/ PhaseDelayElapsed
    \/ PhaseListRecordsAnswered
    \/ PhaseResultSendAnswered
    \/ PhaseCatchSendAnswered

SpecPhase == InitPhase /\ [][NextPhase]_vars

\* ------------------------------------------------------------------ Identify phase
\* a document with an Identify element
IdentifyBody == Body("identify", FALSE, "absent", 0, "absent", NoToken)

MsgInvalidIdentify ==
    "Failed to parse Identify XML: Invalid Identify XML structure"
MsgUnparsableIdentify ==
    "Failed to parse Identify XML: Non-whitespace before first tag"

\* what parseIdentifyXml rejects with for a document, NullValue when it
\* resolves
IdentifyParseError(xmlData) ==
    IF xmlData.kind = "malformed" THEN NewError(MsgUnparsableIdentify)
    ELSE IF xmlData.kind # "identify" THEN NewError(MsgInvalidIdentify)
    ELSE NullValue

\* what parseIdentifyXml resolves with, as far as the handler looks at it
IdentifyDataOf(xmlData, key) == [journal_key |-> key, type |-> "Identify"]

IdentifyLabel(key) == key \o "-identify"

\* the message of a completed Identify phase
IdentifyMessage ==
    [journalKey |-> journalKey, oaiUrl |-> oaiUrl,
     s3Url |-> S3Result(IdentifyLabel(journalKey)).s3Url,
     s3Key |-> S3Result(IdentifyLabel(journalKey)).s3Key,
     messageType |-> "Identify", source |-> "scraping-service",
     success |-> TRUE, errorCode |-> NULL, errorMessage |-> NULL,
     data |-> IdentifyDataOf(result.data, journalKey)]

\* processIdentifyPhase up to its await of processIdentify
IdentifyPhaseCalled ==
    /\ hPc' = "id_call"
    /\ phaseError' = NullValue
    /\ trace' = Append(trace, PhaseEvent("Identify", "start"))

\* from the end of processIdentify to the await of createAndUploadXml or of
\* a sendMessage
IdentifyAnswered ==
    /\ hPc = "id_call"
    /\ pc \in {"returned", "raised"}
    /\ IF pc = "raised"
       THEN /\ phaseError' = escaped
            /\ hPc' = "id_catch_send"
       ELSE /\ hPc' = IF result.success THEN "id_upload" ELSE "id_fail_send"
            /\ UNCHANGED phaseError
    /\ UNCHANGED <<uploads, sent, trace>>

\* createAndUploadXml outside the try block: its rejection leaves the phase
IdentifyUploadAnsweredUncaught(ok) ==
    /\ hPc = "id_upload"
    /\ uploads' = Append(uploads, Upload(IdentifyLabel(journalKey), ok))
    /\ IF ok
       THEN /\ hPc' = "id_parse"
            /\ UNCHANGED <<phaseError, trace>>
       ELSE /\ phaseError' = UploadError
            /\ hPc' = "id_raised"
            /\ trace' = Append(trace, PhaseEvent("Identify", "raised"))
    /\ UNCHANGED sent

\* from the answer of createAndUploadXml to the next await
IdentifyUploadAnswered(ok) ==
    /\ hPc = "id_upload"
    /\ uploads' = Append(uploads, Upload(IdentifyLabel(journalKey), ok))
    /\ IF ok
       THEN /\ hPc' = "id_parse"
            /\ UNCHANGED phaseError
       ELSE /\ phaseError' = UploadError
            /\ hPc' = "id_catch_send"
    /\ UNCHANGED <<sent, trace>>

\* from the answer of parseIdentifyXml to the next await
IdentifyParseAnswered ==
    /\ hPc = "id_parse"
    /\ IF IdentifyParseError(result.data).kind = "error"
       THEN /\ phaseError' = IdentifyParseError(result.data)
            /\ hPc' = "id_catch_send"
       ELSE /\ hPc' = "id_send"
            /\ UNCHANGED phaseError
    /\ UNCHANGED <<uploads, sent, trace>>

\* a plausible slip: a failed delivery of the Identify data passed over
IdentifySendAnsweredUnchecked(ok) ==
    /\ hPc = "id_send"
    /\ sent' = Append(sent, Send(IdentifyMessage, ok))
    /\ hPc' = "id_done"
    /\ trace' = Append(trace, PhaseEvent("Identify", "end"))
    /\ UNCHANGED phaseError
    /\ UNCHANGED uploads

\* the answer of the sendMessage of the Identify data
IdentifySendAnswered(ok) ==
    /\ hPc = "id_send"
    /\ sent' = Append(sent, Send(IdentifyMessage, ok))
    /\ IF ok
       THEN /\ hPc' = "id_done"
            /\ trace' = Append(trace, PhaseEvent("Identify", "end"))
            /\ UNCHANGED phaseError
       ELSE /\ phaseError' = SendError
            /\ hPc' = "id_catch_send"
            /\ UNCHANGED trace
    /\ UNCHANGED uploads

\* the answer of the sendMessage of the failure of processIdentify
IdentifyFailureSendAnswered(ok) ==
    /\ hPc = "id_fail_send"
    /\ sent' = Append(sent,
          Send(PhaseFailureMessage("Identify", result.errorCode,
                                   result.errorMessage), ok))
    /\ IF ok
       THEN /\ hPc' = "id_done"
            /\ trace' = Append(trace, PhaseEvent("Identify", "end"))
            /\ UNCHANGED phaseError
       ELSE /\ phaseError' = SendError
            /\ hPc' = "id_catch_send"
            /\ UNCHANGED trace
    /\ UNCHANGED uploads

\* a plausible slip: the catch block passing over its own failed send
IdentifyCatchSendAnsweredSwallowed(ok) ==
    /\ hPc = "id_catch_send"
    /\ sent' = Append(sent,
          Send(PhaseFailureMessage("Identify", "IDENTIFY_PROCESSING_ERROR",
                                   phaseError.message), ok))
    /\ hPc' = "id_done"
    /\ trace' = Append(trace, PhaseEvent("Identify", "end"))
    /\ UNCHANGED <<uploads, phaseError>>

\* the answer of the sendMessage of the catch block: the phase returns, or
\* rejects with what sendMessage rejected with
IdentifyCatchSendAnswered(ok) ==
    /\ hPc = "id_catch_send"
    /\ sent' = Append(sent,
          Send(PhaseFailureMessage("Identify", "IDENTIFY_PROCESSING_ERROR",
                                   phaseError.message), ok))
    /\ hPc' = IF ok THEN "id_done" ELSE "id_raised"
    /\ trace' = Append(trace,
          PhaseEvent("Identify", IF ok THEN "end" ELSE "raised"))
    /\ UNCHANGED <<uploads, phaseError>>

\* ------------------------------------------------------------------ handler
\* record.body: text that is no JSON, the JSON null, or a JSON object with
\* its url and journal_key properties (NullUrl, NULL when absent)
InvalidJson == [json |-> "invalid", url |-> NullUrl, journal_key |-> NULL]
NullJson == [json |-> "null", url |-> NullUrl, journal_key |-> NULL]
JsonObject(url, key) == [json |-> "object", url |-> url, journal_key |-> key]

\* !value for a url and for a journal_key
NoUrl(url) == url.t = "null" \/ (url.t = "str" /\ url.s = <<>>)
NoKey(key) == key = NULL \/ key = ""

MessageIdOf(i) == "message-" \o ToString(i)
JournalKeyOf(i) == "journal-" \o ToString(i)

\* the bodies record number i of an event can have
BodiesOf(i) ==
    {InvalidJson, NullJson,
     JsonObject(GoodUrl, JournalKeyOf(i)),
     JsonObject(GoodUrl, NULL),
     JsonObject(Str(<<>>), JournalKeyOf(i))}

EventsOfLength(n) ==
    {[hasRecords |-> TRUE,
      Records |-> [i \in 1..n |-> [messageId |-> MessageIdOf(i), body |-> b[i]]]] :
        b \in [1..n -> UNION {BodiesOf(i) : i \in 1..n}]}

\* an event of n records, record i with one of the bodies of record i
WellNumbered(e) ==
    \A i \in 1..Len(e.Records) : e.Records[i].body \in BodiesOf(i)

Events ==
    {NoEvent}
        \cup UNION {{e \in EventsOfLength(n) : WellNumbered(e)} : n \in 0..MaxItems}

Envs ==
    {FullEnv,
     [S3_BUCKET_NAME |-> FALSE, SQS_INTEGRATION_QUEUE_URL |-> TRUE],
     [S3_BUCKET_NAME |-> TRUE, SQS_INTEGRATION_QUEUE_URL |-> FALSE]}

\* what the endpoint of a work item answers with
HandlerOutcomes ==
    {Raised(ErrorObject("AxiosError", "ECONNREFUSED", 0, "connect ECONNREFUSED")),
     Response(200, IdentifyBody),
     Response(200, PageOfSize(1))}

InitHandler ==
    /\ oaiUrl = NullUrl
    /\ maxPages = 1
    /\ Idle
    /\ journalKey = NULL
    /\ uploads = <<>>
    /\ sent = <<>>
    /\ CallbackIdle
    /\ phaseError = NullValue
    /\ event \in Events
    /\ recordIndex = 0
    /\ batchItemFailures = <<>>
    /\ response = NoResponse
    /\ hPc = "idle"
    /\ trace = <<>>
    /\ env \in Envs
    /\ arg = NULL
    /\ out = NULL

\* the handler up to its loop; an event without records is answered at once
HandlerInvoked ==
    /\ hPc = "idle"
    /\ IF ~event.hasRecords \/ Len(event.Records) = 0
       THEN /\ response' = [statusCode |-> 200, body |-> "SUCCESS",
                            hasBatchItemFailures |-> FALSE,
                            batchItemFailures |-> <<>>]
            /\ hPc' = "h_returned"
            /\ UNCHANGED recordIndex
       ELSE /\ recordIndex' = 1
            /\ hPc' = "h_loop"
            /\ UNCHANGED response
    /\ UNCHANGED <<harvestVars, arg, out, journalKey, uploads, sent,
                   callbackVars, phaseError, event, batchItemFailures,
                   trace, env>>

\* the validation looking at the url alone
ItemEntryUrlOnly(record) ==
    IF record.body.json # "object" THEN "raised"
    ELSE IF NoUrl(record.body.url) THEN "skipped"
    ELSE IF ~env.S3_BUCKET_NAME \/ ~env.SQS_INTEGRATION_QUEUE_URL
    THEN "raised"
    ELSE "start"

\* what the head of a loop iteration does with a record: "raised" when it
\* throws, "skipped" when it continues, "start" when the processors stand
ItemEntry(record) ==
    IF record.body.json # "object" THEN "raised"
    ELSE IF NoUrl(record.body.url) \/ NoKey(record.body.journal_key)
    THEN "skipped"
    ELSE IF ~env.S3_BUCKET_NAME \/ ~env.SQS_INTEGRATION_QUEUE_URL
    THEN "raised"
    ELSE "start"

ItemEvent(at) == [item |-> recordIndex, phase |-> "item", at |-> at]

ItemFailure(record) == [itemIdentifier |-> record.messageId]

\* the head of a loop iteration: the body parsed, the fields checked, the
\* four processors constructed, each with a state and a call log of its own
RecordTaken ==
    /\ hPc = "h_loop"
    /\ recordIndex <= Len(event.Records)
    /\ LET record == event.Records[recordIndex]
           entry == ItemEntry(record)
       IN
       /\ trace' = Append(trace, ItemEvent(entry))
       /\ batchItemFailures' =
              IF entry = "raised"
              THEN Append(batchItemFailures, ItemFailure(record))
              ELSE batchItemFailures
       /\ IF entry = "start"
          THEN /\ oaiUrl' = record.body.url
               /\ journalKey' = record.body.journal_key
               /\ hPc' = "h_constructed"
               /\ call' = "none"
               /\ pc' = "idle"
               /\ resumptionToken' = NoToken
               /\ pageCount' = 0
               /\ totalRecordsProcessed' = 0
               /\ page' = EmptyBody
               /\ requests' = <<>>
               /\ outcomes' = <<>>
               /\ onPageCalls' = <<>>
               /\ onPageOutcomes' = <<>>
               /\ delays' = 0
               /\ result' = NoResult
               /\ escaped' = NullValue
               /\ uploads' = <<>>
               /\ sent' = <<>>
               /\ cbPc' = "idle"
               /\ articles' = <<>>
               /\ batches' = <<>>
               /\ batchIndex' = 0
               /\ successCount' = 0
               /\ failureCount' = 0
               /\ pageS3Result' = NoS3Result
               /\ pageError' = NullValue
               /\ phaseError' = NullValue
               /\ UNCHANGED recordIndex
          ELSE /\ hPc' = "h_loop"
               /\ recordIndex' = recordIndex + 1
               /\ UNCHANGED <<harvestVars, journalKey, uploads, sent,
                              callbackVars, phaseError>>
    /\ UNCHANGED <<maxPages, arg, out, event, response, env>>

\* the try block around the loop instead of inside it: the first rejected
\* phase ends the loop
ItemSettledEndingLoop ==
    /\ hPc \in {"id_raised", "lr_done", "lr_raised"}
    /\ batchItemFailures' =
           IF hPc = "lr_done" THEN batchItemFailures
           ELSE Append(batchItemFailures,
                       ItemFailure(event.Records[recordIndex]))
    /\ recordIndex' =
           IF hPc = "lr_done" THEN recordIndex + 1
           ELSE Len(event.Records) + 1
    /\ hPc' = "h_loop"
    /\ UNCHANGED <<harvestVars, arg, out, journalKey, uploads, sent,
                   callbackVars, phaseError, event, response, trace, env>>

\* the end of a loop iteration whose phases were called: into the catch
\* block when a phase rejected
ItemSettled ==
    /\ hPc \in {"id_raised", "lr_done", "lr_raised"}
    /\ batchItemFailures' =
           IF hPc = "lr_done" THEN batchItemFailures
           ELSE Append(batchItemFailures,
                       ItemFailure(event.Records[recordIndex]))
    /\ recordIndex' = recordIndex + 1
    /\ hPc' = "h_loop"
    /\ UNCHANGED <<harvestVars, arg, out, journalKey, uploads, sent,
                   callbackVars, phaseError, event, response, trace, env>>

\* the return after the loop
HandlerReturns ==
    /\ hPc = "h_loop"
    /\ recordIndex > Len(event.Records)
    /\ response' = [statusCode |-> 200, body |-> "SUCCESS",
                    hasBatchItemFailures |-> Len(batchItemFailures) > 0,
                    batchItemFailures |-> batchItemFailures]
    /\ hPc' = "h_returned"
    /\ UNCHANGED <<harvestVars, arg, out, journalKey, uploads, sent,
                   callbackVars, phaseError, event, recordIndex,
                   batchItemFailures, trace, env>>

\* what a phase leaves alone of the handler and of the callback
PhaseUnchanged ==
    /\ EventUnchanged
    /\ UNCHANGED <<arg, out, journalKey, callbackVars>>

HandlerCallIdentify ==
    /\ hPc = "h_constructed"
    /\ IdentifyPhaseCalled
    /\ IdentifyCalled
    /\ PhaseUnchanged
    /\ UNCHANGED <<uploads, sent>>

HandlerIdentifyFetchReturns ==
    /\ \E outcome \in HandlerOutcomes : IdentifyFetched(outcome)
    /\ UNCHANGED orchestratorVars

\* processIdentify has returned; the processor is free for the next call
HandlerIdentifyAnswered ==
    /\ IdentifyAnswered
    /\ pc' = "idle"
    /\ call' = "none"
    /\ UNCHANGED <<oaiUrl, maxPages, resumptionToken, pageCount,
                   totalRecordsProcessed, page, requests, outcomes,
                   onPageCalls, onPageOutcomes, delays, result, escaped>>
    /\ PhaseUnchanged

HandlerIdentifyUploadAnswered ==
    /\ \E ok \in BOOLEAN : IdentifyUploadAnswered(ok)
    /\ UNCHANGED harvestVars
    /\ PhaseUnchanged

HandlerIdentifyParseAnswered ==
    /\ IdentifyParseAnswered
    /\ UNCHANGED harvestVars
    /\ PhaseUnchanged

HandlerIdentifySendAnswered ==
    /\ \E ok \in BOOLEAN : IdentifySendAnswered(ok)
    /\ UNCHANGED harvestVars
    /\ PhaseUnchanged

HandlerIdentifyFailureSendAnswered ==
    /\ \E ok \in BOOLEAN : IdentifyFailureSendAnswered(ok)
    /\ UNCHANGED harvestVars
    /\ PhaseUnchanged

HandlerIdentifyCatchSendAnswered ==
    /\ \E ok \in BOOLEAN : IdentifyCatchSendAnswered(ok)
    /\ UNCHANGED harvestVars
    /\ PhaseUnchanged

HandlerCallListRecords ==
    /\ hPc = "id_done"
    /\ ListRecordsPhaseCalled
    /\ ListRecordsCalled
    /\ PhaseUnchanged
    /\ UNCHANGED <<uploads, sent>>

HandlerListRecordsFetchReturns ==
    /\ \E outcome \in HandlerOutcomes : ListRecordsFetched(outcome)
    /\ UNCHANGED orchestratorVars

NextHandler ==
    \/ HandlerInvoked
    \/ RecordTaken
    \/ HandlerCallIdentify
    \/ HandlerIdentifyFetchReturns
    \/ HandlerIdentifyAnswered
    \/ HandlerIdentifyUploadAnswered
    \/ HandlerIdentifyParseAnswered
    \/ HandlerIdentifySendAnswered
    \/ HandlerIdentifyFailureSendAnswered
    \/ HandlerIdentifyCatchSendAnswered
    \/ HandlerCallListRecords
    \/ HandlerListRecordsFetchReturns
    \/ PhaseCallbackCalled
    \/ PhaseUploadAnswered
    \/ PhaseParseAnswered
    \/ PhaseBatchSendAnswered
    \/ PhaseFailureSendAnswered
    \/ PhaseOnPageReturns
    \/ PhaseListRecordsAnswered
    \/ PhaseResultSendAnswered
    \/ PhaseCatchSendAnswered
    \/ ItemSettled
    \/ HandlerReturns

SpecHandler == InitHandler /\ [][NextHandler]_vars

\* ------------------------------------------------------------------ normalizer values
\* What the XML parser (explicitArray: false, mergeAttrs: true) hands over,
\* and what the normalizer makes of it.  A string is StrVal(chars), the
\* empty element StrVal(<<>>).  An element with attributes or children is an
\* object: text is its "_" property, xmllang its "xml:lang" property, lang
\* its "lang" property.  Several elements of one name are an array.
Undefined == [t |-> "undefined", s |-> <<>>]
JsNull == [t |-> "null", s |-> <<>>]
Num(n) == [t |-> "number", n |-> n]
Element(text, xmllang) ==
    [t |-> "object", text |-> text, xmllang |-> xmllang, lang |-> Undefined]
Array(items) == [t |-> "array", items |-> items]

\* a string literal of the code
Lit(word) == StrVal(<<word>>)

\* !!value
Truthy(value) ==
    /\ value.t \notin {"undefined", "null"}
    /\ ~(value.t = "str" /\ value.s = <<>>)

\* a || b
OrElse(a, b) == IF Truthy(a) THEN a ELSE b

\* field._
TextOf(field) == IF field.t = "object" THEN field.text ELSE Undefined

RECURSIVE extractValue(_)
extractValue(field) ==
    IF ~Truthy(field) THEN JsNull
    ELSE IF field.t = "str" THEN StrVal(Trim(field.s))
    ELSE IF Truthy(TextOf(field)) /\ TextOf(field).t = "str"
    THEN StrVal(Trim(TextOf(field).s))
    ELSE IF field.t = "array"
    THEN IF Len(field.items) > 0 THEN extractValue(field.items[1]) ELSE JsNull
    ELSE JsNull

MsgNoTrim == "field._.trim is not a function"
MsgNullRecord == "Cannot read properties of null (reading 'header')"

\* extractValueWithLang: value and lang, or the TypeError of calling trim on
\* a "_" property that is no string
ValueAndLang(value, lang) == [threw |-> FALSE, value |-> value, lang |-> lang]

\* a plausible slip: the language of an element read before its text is
\* looked at
RECURSIVE extractValueWithLangOfAnyElement(_)
extractValueWithLangOfAnyElement(field) ==
    IF ~Truthy(field) THEN ValueAndLang(JsNull, JsNull)
    ELSE IF field.t = "str" THEN ValueAndLang(StrVal(Trim(field.s)), JsNull)
    ELSE IF field.t = "object"
    THEN IF ~Truthy(TextOf(field))
         THEN ValueAndLang(JsNull, OrElse(OrElse(field.xmllang, field.lang), JsNull))
         ELSE IF TextOf(field).t = "str"
         THEN ValueAndLang(StrVal(Trim(TextOf(field).s)),
                           OrElse(OrElse(field.xmllang, field.lang), JsNull))
         ELSE [threw |-> TRUE, value |-> JsNull, lang |-> JsNull]
    ELSE IF field.t = "array" /\ Len(field.items) > 0
    THEN extractValueWithLangOfAnyElement(field.items[1])
    ELSE ValueAndLang(JsNull, JsNull)

RECURSIVE extractValueWithLang(_)
extractValueWithLang(field) ==
    IF ~Truthy(field) THEN ValueAndLang(JsNull, JsNull)
    ELSE IF field.t = "str" THEN ValueAndLang(StrVal(Trim(field.s)), JsNull)
    ELSE IF Truthy(TextOf(field))
    THEN IF TextOf(field).t = "str"
         THEN ValueAndLang(StrVal(Trim(TextOf(field).s)),
                           OrElse(OrElse(field.xmllang, field.lang), JsNull))
         ELSE [threw |-> TRUE, value |-> JsNull, lang |-> JsNull]
    ELSE IF field.t = "array" /\ Len(field.items) > 0
    THEN extractValueWithLang(field.items[1])
    ELSE ValueAndLang(JsNull, JsNull)

\* list.map(item => this.extractValue(item))
ExtractEach(list) == [i \in 1..Len(list) |-> extractValue(list[i])]

NotNull(value) == value.t # "null"

\* a plausible slip: a list reduced to its first value
extractArrayValueFirstOnly(field) ==
    IF ~Truthy(field) THEN Array(<<>>)
    ELSE IF Truthy(extractValue(field)) THEN Array(<<extractValue(field)>>)
    ELSE Array(<<>>)

extractArrayValue(field) ==
    IF ~Truthy(field) THEN Array(<<>>)
    ELSE IF field.t = "array"
    THEN Array(SelectSeq(ExtractEach(field.items), NotNull))
    ELSE IF Truthy(extractValue(field)) THEN Array(<<extractValue(field)>>)
    ELSE Array(<<>>)

\* the value stays in the cleaned object
Kept(value) ==
    /\ value.t \notin {"null", "undefined"}
    /\ ~(value.t = "array" /\ Len(value.items) = 0)

removeNullValues(obj) ==
    [key \in {k \in DOMAIN obj : Kept(obj[k])} |-> obj[key]]

\* ------------------------------------------------------------------ normalizer
\* A record element: its header and the Dublin-Core element of its metadata,
\* a property that is not there being Undefined.  dc.title stands for
\* dc['dc:title'] || dc.title, and so on for every field.
EmptyHeader ==
    [identifier |-> Undefined, datestamp |-> Undefined, setSpec |-> Undefined]

Record(header, dc) == [t |-> "record", header |-> header, dc |-> dc]

EmptyDc ==
    [title |-> Undefined, creator |-> Undefined, subject |-> Undefined,
     description |-> Undefined, publisher |-> Undefined, date |-> Undefined,
     type |-> Undefined, format |-> Undefined, identifier |-> Undefined,
     source |-> Undefined, language |-> Undefined, relation |-> Undefined]

\* record.header || {} and metadata['oai_dc:dc'] || metadata.dc || {}
HeaderOf(record) == IF record.t = "record" THEN record.header ELSE EmptyHeader
DcOf(record) == IF record.t = "record" THEN record.dc ELSE EmptyDc

CreatedAt == Lit("now")

\* ...(value && { key: value })
Spread(value) == IF Truthy(value) THEN value ELSE Undefined

\* the record of the catch block of parseIndividualRecord
Stub(index, key, message) ==
    [journal_key |-> key, created_at |-> CreatedAt,
     type |-> Lit("ListRecords"), recordIndex |-> Num(index),
     error |-> Lit(message), status |-> Lit("parse_error")]

Article(header, dc, key) ==
    [journal_key |-> key, created_at |-> CreatedAt,
     type |-> Lit("ListRecords"),
     title |-> extractValueWithLang(dc.title).value,
     title_lang |-> Spread(extractValueWithLang(dc.title).lang),
     creator |-> extractValue(dc.creator),
     subjects |-> extractArrayValue(dc.subject),
     description |-> extractValueWithLang(dc.description).value,
     description_lang |-> Spread(extractValueWithLang(dc.description).lang),
     publisher |-> extractValueWithLang(dc.publisher).value,
     publisher_lang |-> Spread(extractValueWithLang(dc.publisher).lang),
     date |-> extractValue(dc.date),
     types |-> extractArrayValue(dc.type),
     format |-> extractValue(dc.format),
     identifier |-> OrElse(extractValue(dc.identifier), header.identifier),
     sources |-> extractArrayValue(dc.source),
     language |-> extractValue(dc.language),
     relation |-> extractValue(dc.relation),
     datestamp |-> Spread(header.datestamp),
     setSpec |-> Spread(header.setSpec)]

parseIndividualRecord(record, index, key) ==
    IF record.t \in {"null", "undefined"}
    THEN Stub(index, key, MsgNullRecord)
    ELSE IF \/ extractValueWithLang(DcOf(record).title).threw
            \/ extractValueWithLang(DcOf(record).description).threw
            \/ extractValueWithLang(DcOf(record).publisher).threw
    THEN Stub(index, key, MsgNoTrim)
    ELSE removeNullValues(Article(HeaderOf(record), DcOf(record), key))

\* OAI-PMH.ListRecords as the parser (explicitArray: false, emptyTag '')
\* hands it over: no property when the element is missing, '' for an element
\* with nothing in it, the text for an element that holds white space only,
\* an object when it has children
ListRecordsMissing == Undefined
ListRecordsEmpty == StrVal(<<>>)
ListRecordsBlank == StrVal(<<" ">>)
ListRecordsObject == [t |-> "object", s |-> <<>>]

\* the parsed document of a page: OAI-PMH.ListRecords and its record
\* property
PageDocumentOf(listRecords, record) ==
    [ListRecords |-> listRecords, record |-> record]

\* the document without the element, or with an element that holds the
\* records of record, white space when there is none
PageDocument(hasListRecords, record) ==
    PageDocumentOf(IF ~hasListRecords THEN ListRecordsMissing
                   ELSE IF Truthy(record) THEN ListRecordsObject
                   ELSE ListRecordsBlank,
                   record)

\* a plausible slip: a single record, which is no array, taken for no record
RecordsOfArrayOnly(xmlData) ==
    IF ~Truthy(xmlData.record) THEN <<>>
    ELSE IF xmlData.record.t = "array" THEN xmlData.record.items
    ELSE <<>>

\* the records of ListRecords as a list
RecordsOf(xmlData) ==
    IF ~Truthy(xmlData.record) THEN <<>>
    ELSE IF xmlData.record.t = "array" THEN xmlData.record.items
    ELSE <<xmlData.record>>

Parsed(value) == [threw |-> FALSE, message |-> NULL, value |-> value]
ParseFailed(message) == [threw |-> TRUE, message |-> message, value |-> <<>>]

\* a plausible slip: the index of map passed on as it is
parseListRecordsXmlZeroBased(xmlData, key) ==
    IF ~Truthy(xmlData.ListRecords) THEN ParseFailed(MsgInvalidListRecords)
    ELSE Parsed([i \in 1..Len(RecordsOf(xmlData)) |->
            parseIndividualRecord(RecordsOf(xmlData)[i], i - 1, key)])

parseListRecordsXml(xmlData, key) ==
    IF ~Truthy(xmlData.ListRecords) THEN ParseFailed(MsgInvalidListRecords)
    ELSE Parsed([i \in 1..Len(RecordsOf(xmlData)) |->
            parseIndividualRecord(RecordsOf(xmlData)[i], i, key)])

\* the parsed document of an Identify answer
IdentifyDocument(hasIdentify, identify) ==
    [hasIdentify |-> hasIdentify, identify |-> identify]

parseIdentifyXml(xmlData, key) ==
    IF ~xmlData.hasIdentify THEN ParseFailed(MsgInvalidIdentify)
    ELSE Parsed(removeNullValues(
            [journal_key |-> key, created_at |-> CreatedAt,
             type |-> Lit("Identify"),
             repositoryName |-> OrElse(xmlData.identify.repositoryName, JsNull),
             baseURL |-> OrElse(xmlData.identify.baseURL, JsNull),
             protocolVersion |-> OrElse(xmlData.identify.protocolVersion, JsNull),
             adminEmail |-> OrElse(xmlData.identify.adminEmail, JsNull),
             earliestDatestamp |->
                 OrElse(xmlData.identify.earliestDatestamp, JsNull),
             deletedRecord |-> OrElse(xmlData.identify.deletedRecord, JsNull),
             granularity |-> OrElse(xmlData.identify.granularity, JsNull),
             compression |-> OrElse(xmlData.identify.compression, JsNull),
             description |-> OrElse(xmlData.identify.description, JsNull)]))

\* ------------------------------------------------------------------ normalizer alone
TextA == <<"a">>
TextB == <<" ", "b", " ">>
TextC == <<"c">>

\* one element of a Dublin-Core field: text, text to be trimmed, text with
\* an xml:lang attribute, no content
Values ==
    {StrVal(TextA), StrVal(TextB), Element(StrVal(TextC), Lit("en")),
     StrVal(<<>>)}

ListsOf(n) == [1..n -> Values]

\* a field met several times is an array, a field met once the element
\* itself; a caller may also pass a list of one
SingleSources ==
    {Undefined} \cup Values \cup {Array(l) : l \in ListsOf(2)}

MultiSources ==
    {Undefined} \cup Values
        \cup {Array(l) : l \in UNION {ListsOf(n) : n \in 1..MaxValues}}

\* an element whose "_" is a child element and not its text
NestedElement == Element(Element(StrVal(TextA), Undefined), Undefined)

LangSources ==
    {Undefined, StrVal(TextB), StrVal(<<>>),
     Element(StrVal(TextC), Lit("en")), Element(StrVal(TextC), Undefined),
     Element(Undefined, Lit("en")), NestedElement,
     Array(<<Element(StrVal(TextC), Lit("en")), StrVal(TextA)>>)}

FullHeader ==
    [identifier |-> Lit("oai:1"), datestamp |-> Lit("2024-01-01"),
     setSpec |-> Undefined]

RecordOf(header, langSource, singleSource, multiSource, idSource) ==
    Record(header,
           [title |-> langSource, description |-> langSource,
            publisher |-> langSource,
            creator |-> singleSource, date |-> singleSource,
            format |-> singleSource, language |-> singleSource,
            relation |-> singleSource,
            subject |-> multiSource, type |-> multiSource,
            source |-> multiSource,
            identifier |-> idSource])

RecordInputs ==
    {JsNull, Undefined, StrVal(<<>>)}
        \cup {RecordOf(h, l, StrVal(TextA), Undefined, Undefined) :
                h \in {EmptyHeader, FullHeader}, l \in LangSources}
        \cup {RecordOf(FullHeader, Undefined, s, m, i) :
                s \in SingleSources, m \in MultiSources,
                i \in {Undefined, Lit("doi:1")}}

JournalKeys == {JsNull, Lit("journal-1")}

\* the records of a page: two that normalize, one that does not
RecordA ==
    RecordOf(FullHeader, StrVal(TextA), StrVal(TextA), StrVal(TextA), Undefined)
RecordB ==
    RecordOf(EmptyHeader, StrVal(TextB), StrVal(TextB), Undefined, Lit("doi:1"))
BadRecord ==
    RecordOf(FullHeader, NestedElement, StrVal(TextC), Undefined, Undefined)
PageRecords == {RecordA, RecordB, BadRecord}

PageDocuments ==
    {PageDocument(FALSE, Undefined), PageDocument(TRUE, Undefined),
     PageDocumentOf(ListRecordsEmpty, Undefined),
     PageDocumentOf(ListRecordsObject, Undefined)}
        \cup {PageDocument(TRUE, r) : r \in PageRecords}
        \cup {PageDocument(TRUE, Array(l)) :
                l \in UNION {[1..n -> PageRecords] : n \in 2..MaxPageRecords}}

IdentifyOf(a, b) ==
    [repositoryName |-> a, baseURL |-> a, protocolVersion |-> a,
     adminEmail |-> a, earliestDatestamp |-> a, deletedRecord |-> a,
     granularity |-> a, compression |-> b, description |-> b]

IdentifyDocuments ==
    {IdentifyDocument(FALSE, IdentifyOf(Undefined, Undefined))}
        \cup {IdentifyDocument(TRUE, IdentifyOf(a, b)) :
                a, b \in {Undefined, StrVal(<<>>), StrVal(TextA)}}

NormalizerCalls ==
    {[fn |-> "parseIndividualRecord", record |-> r, index |-> i, key |-> k] :
        r \in RecordInputs, i \in {1, 2}, k \in JournalKeys}
    \cup {[fn |-> "parseListRecordsXml", xmlData |-> d, key |-> k] :
        d \in PageDocuments, k \in JournalKeys}
    \cup {[fn |-> "parseIdentifyXml", xmlData |-> d, key |-> k] :
        d \in IdentifyDocuments, k \in JournalKeys}

InitNormalize ==
    /\ oaiUrl = NullUrl
    /\ maxPages = 1
    /\ Idle
    /\ OrchestratorIdle
    /\ arg \in NormalizerCalls
    /\ out = [fn |-> "none"]

ApplyParseIndividualRecord ==
    /\ pc = "idle"
    /\ arg.fn = "parseIndividualRecord"
    /\ pc' = "applied"
    /\ out' = [fn |-> arg.fn,
               value |-> parseIndividualRecord(arg.record, arg.index, arg.key)]
    /\ UrlUnchanged

ApplyParseListRecordsXml ==
    /\ pc = "idle"
    /\ arg.fn = "parseListRecordsXml"
    /\ pc' = "applied"
    /\ out' = [fn |-> arg.fn,
               result |-> parseListRecordsXml(arg.xmlData, arg.key)]
    /\ UrlUnchanged

ApplyParseIdentifyXml ==
    /\ pc = "idle"
    /\ arg.fn = "parseIdentifyXml"
    /\ pc' = "applied"
    /\ out' = [fn |-> arg.fn,
               result |-> parseIdentifyXml(arg.xmlData, arg.key)]
    /\ UrlUnchanged

NextNormalize ==
    \/ ApplyParseIndividualRecord
    \/ ApplyParseListRecordsXml
    \/ ApplyParseIdentifyXml

SpecNormalize == InitNormalize /\ [][NextNormalize]_vars

\* ------------------------------------------------------------------ one page, two parsers
\* parseListRecordsXml rejects the document: its ListRecords is falsy
NormalizerRejects(xmlData) == ~Truthy(xmlData.ListRecords)

\* articles.length of parseListRecordsXml: records.map gives one article,
\* or one stub, for each element of records
NormalizerCount(xmlData) == Len(RecordsOf(xmlData))

\* The document the parser of parseListRecordsXml (mergeAttrs: true) makes
\* of the page that processListRecordsPage has parsed and counted: the same
\* ListRecords element with the same record elements.
NormalizerDocument(pageXml) ==
    PageDocumentOf(
        IF ~pageXml.hasListRecords THEN ListRecordsMissing
        ELSE IF pageXml.recShape = "absent" /\ pageXml.tokShape = "absent"
        THEN ListRecordsBlank
        ELSE ListRecordsObject,
        IF pageXml.recShape = "absent" THEN Undefined
        ELSE IF pageXml.recShape = "array"
        THEN Array([i \in 1..pageXml.recN |-> RecordA])
        ELSE RecordA)

\* ================================================================== claims
\* ------------------------------------------------------------------ histories
Finished == pc \in {"returned", "raised"}

\* the fetch was answered 200 with a document that has a ListRecords element
GoodPage(o) ==
    /\ ~o.raised
    /\ o.status = 200
    /\ o.data.kind = "xml"
    /\ o.data.hasListRecords

\* the page carries a resumption token
HasToken(o) == o.data.tokVal # NoToken

\* the fetch raised, or was answered with a non-200 status or no body
FetchFailed(o) == o.raised \/ o.status # 200 \/ o.data.kind = "empty"

RECURSIVE SumOfRecords(_)
SumOfRecords(os) ==
    IF os = <<>> THEN 0 ELSE Head(os).data.recN + SumOfRecords(Tail(os))

AllCallbacksOk ==
    /\ Len(onPageOutcomes) = Len(onPageCalls)
    /\ \A i \in 1..Len(onPageOutcomes) : onPageOutcomes[i].ok

\* position of chunk in the request URL req, 0 when it is not there
RECURSIVE ChunkAt(_, _, _)
ChunkAt(req, chunk, i) ==
    IF i > Len(req) THEN 0
    ELSE IF req[i] = chunk THEN i
    ELSE ChunkAt(req, chunk, i + 1)

HasMetadataPrefix(req) == ChunkAt(req, "&metadataPrefix=oai_dc", 1) # 0
HasTokenParameter(req) == ChunkAt(req, "&resumptionToken=", 1) # 0
IsListRecordsRequest(req) == ChunkAt(req, "/oai?verb=ListRecords", 1) # 0

\* the token the endpoint reads out of the request
CarriedToken(req) ==
    decodeURIComponent(
        SubSeq(req, ChunkAt(req, "&resumptionToken=", 1) + 1, Len(req)))

\* ------------------------------------------------------------------ C1
\* C1: when a ListRecords call has ended after P pages, each fetched and
\* handed to onPage without failure, each holding r_i records, all but the
\* last carrying a resumption token, it has returned success = true with
\* pageCount = P and totalRecordsProcessed = r_1 + ... + r_P.
C1_PagesAndRecordsCounted ==
    LET P == Len(outcomes) IN
    ( /\ call = "ListRecords"
      /\ Finished
      /\ P >= 1
      /\ \A i \in 1..P : GoodPage(outcomes[i])
      /\ \A i \in 1..(P - 1) : HasToken(outcomes[i])
      /\ ~HasToken(outcomes[P])
      /\ Len(onPageCalls) = P
      /\ AllCallbacksOk )
    => /\ pc = "returned"
       /\ result.success
       /\ result.pageCount = P
       /\ result.totalRecordsProcessed = SumOfRecords(outcomes)

\* three pages, the parser handing over a single record as an object on one
\* of them and an array on another
C1_Witness ==
    /\ call = "ListRecords"
    /\ pc = "returned"
    /\ result.success
    /\ Len(outcomes) = 3
    /\ \A i \in 1..3 : GoodPage(outcomes[i])
    /\ ~HasToken(outcomes[3])
    /\ outcomes[1].data.recShape = "single"
    /\ outcomes[2].data.recShape = "array"
    /\ result.totalRecordsProcessed = 1 + MaxRecs

\* ------------------------------------------------------------------ C2
\* C2: the first request of a ListRecords call is the ListRecords request
\* with metadataPrefix=oai_dc and no token; the request for page k+1 is a
\* ListRecords request that carries the token of the response of page k and
\* no metadataPrefix, and is made only if that response had a token; a call
\* whose second page has no token has made exactly 2 fetches when it ends.
C2_RequestsFollowTokens ==
    call = "ListRecords" =>
        /\ Len(requests) >= 1 =>
              /\ IsListRecordsRequest(requests[1])
              /\ HasMetadataPrefix(requests[1])
              /\ ~HasTokenParameter(requests[1])
        /\ \A k \in 1..(Len(requests) - 1) :
              /\ HasToken(outcomes[k])
              /\ IsListRecordsRequest(requests[k + 1])
              /\ HasTokenParameter(requests[k + 1])
              /\ CarriedToken(requests[k + 1]) = outcomes[k].data.tokVal
              /\ ~HasMetadataPrefix(requests[k + 1])
        /\ (Finished /\ Len(outcomes) >= 2 /\ ~HasToken(outcomes[2]))
              => Len(requests) = 2

\* a third request after two pages that carried different tokens
C2_Witness ==
    /\ call = "ListRecords"
    /\ Len(requests) = 3
    /\ outcomes[1].data.tokVal = TokenA
    /\ outcomes[2].data.tokVal = TokenB
    /\ CarriedToken(requests[2]) = TokenA
    /\ CarriedToken(requests[3]) = TokenB

C4_OnPageFailureAborts ==
    \A k \in 1..Len(onPageOutcomes) :
        (~onPageOutcomes[k].ok /\ onPageOutcomes[k].error.kind = "error")
        => /\ k = Len(onPageOutcomes)
           /\ Len(onPageCalls) = k
           /\ onPageCalls[k].pageNumber = Len(requests)
           /\ Len(outcomes) = Len(requests)
           /\ \A j \in 1..(k - 1) : onPageOutcomes[j].ok
           /\ pc = "returned"
           /\ ~result.success
           /\ result.status = "failed"
           /\ result.errorMessage = onPageOutcomes[k].error.message

\* onPage raises on the second page, after the first was delivered
C4_Witness ==
    /\ Len(onPageOutcomes) = 2
    /\ onPageOutcomes[1].ok
    /\ ~onPageOutcomes[2].ok
    /\ onPageOutcomes[2].error.kind = "error"
    /\ pc = "returned"
    /\ result.errorMessage = "Callback failed"

\* ------------------------------------------------------------------ C5
\* C5: when the page handler throws (an error) on page 1, processListRecords
\* returns success = false, pageCount = 0, totalRecordsProcessed = 0 and
\* errorCode = "LISTRECORDS_PROCESSING_ERROR".
C5_CallbackErrorCode ==
    ( /\ call = "ListRecords"
      /\ Len(onPageOutcomes) = 1
      /\ ~onPageOutcomes[1].ok
      /\ onPageOutcomes[1].error.kind = "error" )
    => /\ pc = "returned"
       /\ ~result.success
       /\ result.pageCount = 0
       /\ result.totalRecordsProcessed = 0
       /\ result.errorCode = "LISTRECORDS_PROCESSING_ERROR"

IsHttpUrl(url) ==
    /\ url.t = "str"
    /\ url.s # <<>>
    /\ ParseUrl(url.s).ok
    /\ ParseUrl(url.s).protocol \in {SchemeHttp \o <<":">>, SchemeHttps \o <<":">>}

\* C7: when baseUrl is empty, not a string, not parseable as an absolute URL
\* or not an http(s) URL, processIdentify and processListRecords return
\* success = false without a network request and without calling onPage.
C7_BadUrlNoRequest ==
    (call # "none" /\ ~IsHttpUrl(oaiUrl))
    => /\ pc = "returned"
       /\ ~result.success
       /\ requests = <<>>
       /\ onPageCalls = <<>>

\* ------------------------------------------------------------------ C9
\* C9: when the transport answers with a status s, 400 <= s < 500, without
\* raising, the Identify or ListRecords result has success = false and the
\* errorCode HTTP_CLIENT_ERROR_<s>, the code of a raised error that carries
\* the response status s.
C9_ClientErrorClassified ==
    \A k \in 1..Len(outcomes) :
        LET o == outcomes[k] IN
        (~o.raised /\ o.status >= 400 /\ o.status < 500)
        => /\ pc = "returned"
           /\ ~result.success
           /\ result.errorCode = "HTTP_CLIENT_ERROR_" \o ToString(o.status)
           /\ result.errorCode
                = getErrorCode(ErrorObject("AxiosError", "ERR_BAD_REQUEST",
                                           o.status, "Request failed"))

\* ------------------------------------------------------------------ C8
GenericNames == {"TypeError", "SyntaxError", "ReferenceError"}

\* the buckets an error object matches
MatchesNetwork(e) == e.code \in NetworkCodes
MatchesHttp(e) == e.status # 0
MatchesAxios(e) == e.name = "AxiosError"
MatchesGeneric(e) == e.name \in GenericNames

NetworkBucket(e) ==
    [ECONNREFUSED |-> "CONNECTION_REFUSED", ENOTFOUND |-> "DNS_RESOLUTION_FAILED",
     ETIMEDOUT |-> "TIMEOUT_ERROR", ECONNRESET |-> "CONNECTION_RESET"][e.code]

HttpBucket(e) ==
    (IF e.status \in 400..499 THEN "HTTP_CLIENT_ERROR_"
     ELSE IF e.status \in 500..599 THEN "HTTP_SERVER_ERROR_"
     ELSE "HTTP_ERROR_") \o ToString(e.status)

AxiosBucket(e) ==
    IF e.code = "ECONNABORTED" THEN "REQUEST_TIMEOUT"
    ELSE IF e.code = "ERR_NETWORK" THEN "NETWORK_ERROR"
    ELSE "AXIOS_ERROR"

GenericBucket(e) ==
    [TypeError |-> "TYPE_ERROR", SyntaxError |-> "SYNTAX_ERROR",
     ReferenceError |-> "REFERENCE_ERROR"][e.name]

\* C8: getErrorCode answers for every error, null included, and the first
\* bucket the error matches decides: OS/network code, then HTTP response
\* status, then AxiosError code, then runtime error name, then
\* UNKNOWN_ERROR; null yields UNKNOWN_ERROR.
C8_FirstBucketWins ==
    pc = "applied" =>
        /\ arg.kind = "null" => out = "UNKNOWN_ERROR"
        /\ arg.kind = "error" =>
              out = IF MatchesNetwork(arg) THEN NetworkBucket(arg)
                    ELSE IF MatchesHttp(arg) THEN HttpBucket(arg)
                    ELSE IF MatchesAxios(arg) THEN AxiosBucket(arg)
                    ELSE IF MatchesGeneric(arg) THEN GenericBucket(arg)
                    ELSE "UNKNOWN_ERROR"

\* an AxiosError that matches the network, the HTTP and the Axios bucket
C8_Witness ==
    /\ pc = "applied"
    /\ arg.kind = "error"
    /\ MatchesNetwork(arg) /\ MatchesHttp(arg) /\ MatchesAxios(arg)
    /\ arg.code = "ETIMEDOUT"
    /\ out = "TIMEOUT_ERROR"

\* ------------------------------------------------------------------ C10
\* C10: for every absolute http(s) URL u, buildIdentifyUrl(u) equals
\* buildIdentifyUrl(u + "/"), and likewise buildListRecordsUrl, whether or
\* not u ends in /oai or in a slash.
C10_TrailingSlashIgnored ==
    pc = "applied" => out.plain = out.slash


\* ------------------------------------------------------------------ batches
\* the callback has parsed its page and formed the batches
Batched == cbPc \in {"send", "returned"} /\ pageError.kind = "null"

\* k is the least number of runs of at most size that hold n things
IsCeilDiv(k, n, size) ==
    /\ k * size >= n
    /\ k = 0 \/ (k - 1) * size < n

RECURSIVE Concat(_)
Concat(lists) ==
    IF lists = <<>> THEN <<>> ELSE Head(lists) \o Concat(Tail(lists))

ArticleBatchesSent ==
    SelectSeq(sent, LAMBDA c : c.message.messageType = "ArticleBatch")

PageSends(n) ==
    SelectSeq(sent, LAMBDA c :
        c.message.messageType = "ArticleBatch" /\ c.message.pageNumber = n)

\* the PAGE_PROCESSING_FAILED sendMessage calls made for page n, in order
PageFailures(n) ==
    SelectSeq(sent, LAMBDA c :
        /\ c.message.errorCode = "PAGE_PROCESSING_FAILED"
        /\ c.message.pageNumber = n)

SomeFailed(calls) == \E j \in 1..Len(calls) : ~calls[j].ok

\* the token page i was answered with
TokenOfPage(i) == outcomes[i].data.tokVal

\* after page i the harvest stands where a harvest stands whose callback
\* had nothing to report: when page i has a token, waiting out the delay
\* or, past it, the next request made with that token, unless page i is
\* the last the cap allows; else returned with success and every record
\* counted
HarvestWentOn(i) ==
    \/ /\ TokenOfPage(i) # NoToken
       /\ Len(requests) = i
       /\ pc = "lr_delay"
       /\ totalRecordsProcessed = SumOfRecords(outcomes)
    \/ /\ TokenOfPage(i) # NoToken
       /\ i < maxPages
       /\ Len(requests) > i
       /\ HasTokenParameter(requests[i + 1])
       /\ CarriedToken(requests[i + 1]) = TokenOfPage(i)
    \/ /\ TokenOfPage(i) = NoToken \/ i >= maxPages
       /\ Len(requests) = i
       /\ pc = "returned"
       /\ result = ListRecordsCompleted(i, SumOfRecords(outcomes))

\* C12: whenever a page callback has ended during which the send of some
\* batch j failed, a send was attempted for every batch of the page, those
\* after j included, the callback returned normally, and the harvest went
\* on from the page as it does after a callback with no failure.
C12_BatchFailureNotFatal ==
    \A i \in 1..Len(onPageOutcomes) :
        SomeFailed(PageSends(i)) =>
            /\ Len(PageSends(i)) = PageSends(i)[1].message.totalBatches
            /\ \A j \in 1..Len(PageSends(i)) :
                   PageSends(i)[j].message.batchNumber = j
            /\ PageFailures(i) = <<>>
            /\ onPageOutcomes[i] = CallbackOk
            /\ HarvestWentOn(i)

\* on page 1 the first of two sends fails; page 2 is requested with the
\* token of page 1
C12_Witness ==
    /\ Len(onPageOutcomes) >= 1
    /\ Len(PageSends(1)) = 2
    /\ ~PageSends(1)[1].ok
    /\ PageSends(1)[2].ok
    /\ Len(requests) = 2
    /\ CarriedToken(requests[2]) = TokenA


\* ------------------------------------------------------------------ C13
\* the upload of page n was refused, or the page cannot be normalized
PageFailed(n) ==
    \/ \E k \in 1..Len(uploads) :
           uploads[k].label = ListRecordsLabel(journalKey, n) /\ ~uploads[k].ok
    \/ ParseError(outcomes[n].data).kind = "error"

\* the one failure message of page n
IsPageFailureOf(m, n) ==
    /\ m.messageType = "ListRecords"
    /\ ~m.success
    /\ m.errorCode = "PAGE_PROCESSING_FAILED"
    /\ m.errorMessage \in {MsgUpload, MsgInvalidListRecords, MsgUnparsable}
    /\ m.pageNumber = n
    /\ m.recordsInPage = outcomes[n].data.recN

Positions(i, phase, at) ==
    {p \in 1..Len(trace) :
        trace[p] = [item |-> i, phase |-> phase, at |-> at]}

Items == 1..Len(event.Records)

\* the item is the one in hand and its handling stands at the position
InHand(i, position) == recordIndex = i /\ hPc = position

\* the Identify phase of the item in hand ended in a failure that was
\* delivered: a failed fetch, or storage, normalization or delivery failing
IdentifyFailureDelivered ==
    \E k \in 1..Len(sent) :
        /\ sent[k].ok
        /\ sent[k].message.messageType = "Identify"
        /\ ~sent[k].message.success

\* an Identify phase that ended, whichever way, is followed by the
\* ListRecords phase of the same item
IdentifyFollowed(i, at, position) ==
    \A q \in Positions(i, "Identify", at) :
        \/ InHand(i, position) /\ q = Len(trace)
        \/ \E p \in Positions(i, "ListRecords", "start") : p > q

\* the ListRecords phase of an item starts after its Identify phase ended
IdentifyFirst ==
    \A i \in Items :
        \A p \in Positions(i, "ListRecords", "start") :
            /\ \E q \in Positions(i, "Identify", "end") : q < p
            /\ \A q \in Positions(i, "Identify", "start") : q < p

\* the last sendMessage was the one of the Identify catch block, and failed
IdentifyCatchSendFailed ==
    /\ Len(sent) > 0
    /\ ~sent[Len(sent)].ok
    /\ sent[Len(sent)].message.messageType = "Identify"
    /\ sent[Len(sent)].message.errorCode = "IDENTIFY_PROCESSING_ERROR"

\* C14 as stated: for every work item with url and journal_key the Identify
\* phase finishes before the ListRecords phase starts, and the ListRecords
\* phase is run whatever the outcome of the Identify phase.
C14_ListRecordsAlwaysRun ==
    /\ IdentifyFirst
    /\ \A i \in Items :
        /\ IdentifyFollowed(i, "end", "id_done")
        /\ IdentifyFollowed(i, "raised", "id_raised")

\* C14: for every work item with url and journal_key the Identify phase
\* finishes before the ListRecords phase starts, and the ListRecords phase is
\* run whatever the outcome of the Identify phase, unless the failure message
\* of the phase's catch block could not be sent: then, and only then, the
\* phase rejects, the ListRecords phase is not run and the item is reported.
C14_ListRecordsRunUnlessIdentifyRaised ==
    /\ IdentifyFirst
    /\ \A i \in Items :
        /\ IdentifyFollowed(i, "end", "id_done")
        /\ Positions(i, "Identify", "raised") # {} =>
              /\ Positions(i, "ListRecords", "start") = {}
              /\ \/ InHand(i, "id_raised")
                 \/ \E k \in 1..Len(batchItemFailures) :
                       batchItemFailures[k].itemIdentifier =
                           event.Records[i].messageId
    /\ hPc = "id_raised" => IdentifyCatchSendFailed
    /\ hPc = "id_done" => Len(sent) > 0 /\ sent[Len(sent)].ok

\* the ListRecords phase of the second item running after its Identify phase
\* failed and the failure was delivered
C14_Witness ==
    /\ recordIndex = 2
    /\ hPc = "lr_call"
    /\ IdentifyFailureDelivered
    /\ \E k \in 1..Len(sent) :
          sent[k].message.errorCode = "IDENTIFY_PROCESSING_ERROR"

\* ------------------------------------------------------------------ C15
\* the body of item i is an object without a usable url or journal_key
Lacking(i) ==
    /\ event.Records[i].body.json = "object"
    /\ \/ NoUrl(event.Records[i].body.url)
       \/ NoKey(event.Records[i].body.journal_key)

Reported(i) ==
    \E k \in 1..Len(batchItemFailures) :
        batchItemFailures[k].itemIdentifier = event.Records[i].messageId

\* the loop has come to item i
Taken(i) == \E p \in 1..Len(trace) : trace[p].item = i /\ trace[p].phase = "item"

\* no phase of a lacking item ever starts and the item is never reported
LackingItemsLeftOut ==
    \A i \in Items :
        Lacking(i) =>
            /\ \A p \in 1..Len(trace) :
                  trace[p].item = i => trace[p].phase = "item"
            /\ ~Reported(i)

\* the handler returns after the loop has come to every item
AllItemsTaken == hPc = "h_returned" => \A i \in Items : Taken(i)

\* the step of the loop over a lacking item: nothing sent, nothing uploaded,
\* nothing reported, on to the next item
LackingItemStep ==
    hPc = "h_loop" /\ recordIndex \in Items /\ Lacking(recordIndex) =>
        /\ sent' = sent
        /\ uploads' = uploads
        /\ batchItemFailures' = batchItemFailures
        /\ requests' = requests
        /\ recordIndex' = recordIndex + 1
        /\ hPc' = "h_loop"

\* C15: a work item lacking url or journal_key is skipped: neither phase
\* runs, no message is sent, no upload happens, the item is not put in
\* batchItemFailures, and the remaining items of the event are still
\* processed.
C15_LackingItemSkipped ==
    /\ [](LackingItemsLeftOut /\ AllItemsTaken)
    /\ [][LackingItemStep]_vars

\* the second item in its ListRecords phase after a first item without
\* journal_key was skipped
C15_Witness ==
    /\ Len(event.Records) = 2
    /\ Lacking(1)
    /\ event.Records[1].body.journal_key = NULL
    /\ recordIndex = 2
    /\ hPc = "lr_call"
    /\ Len(sent) > 0

\* ------------------------------------------------------------------ C16
\* an exception escaped while item i was handled: the body is no JSON object,
\* a processor could not be constructed, or a phase rejected
EscapedAtEntry(i) ==
    \/ event.Records[i].body.json # "object"
    \/ /\ ~Lacking(i)
       /\ ~env.S3_BUCKET_NAME \/ ~env.SQS_INTEGRATION_QUEUE_URL

EscapedInPhase(i) ==
    \/ Positions(i, "Identify", "raised") # {}
    \/ Positions(i, "ListRecords", "raised") # {}

EscapedAt(i) == EscapedAtEntry(i) \/ EscapedInPhase(i)

\* the messageIds of the items among the first n during whose handling an
\* exception escaped, in input order
RECURSIVE EscapedAmong(_)
EscapedAmong(n) ==
    IF n = 0 THEN <<>>
    ELSE EscapedAmong(n - 1) \o
            (IF EscapedAt(n)
             THEN <<[itemIdentifier |-> event.Records[n].messageId]>>
             ELSE <<>>)

NoDuplicates(list) ==
    \A j, k \in 1..Len(list) : list[j] = list[k] => j = k

\* C16: the handler always returns statusCode 200; batchItemFailures holds,
\* in input order and without duplicates, exactly the messageIds of the work
\* items during whose handling an exception escaped, and an escaped
\* exception for one item never prevents the handling of the items after it.
C16_FailuresAreTheEscapedItems ==
    /\ hPc = "h_loop" =>
           batchItemFailures = EscapedAmong(recordIndex - 1)
    /\ hPc = "h_returned" =>
        /\ response.statusCode = 200
        /\ response.body = "SUCCESS"
        /\ event.hasRecords =>
            /\ response.batchItemFailures = EscapedAmong(Len(event.Records))
            /\ response.hasBatchItemFailures =
                   (\E i \in Items : EscapedAt(i))
            /\ NoDuplicates(response.batchItemFailures)
            /\ \A i \in Items : Taken(i)
        /\ ~event.hasRecords => ~response.hasBatchItemFailures

\* the answer to an event of two items: the Identify phase of the first
\* rejected, the second was handled to the end of its ListRecords phase
C16_Witness ==
    /\ hPc = "h_returned"
    /\ Len(event.Records) = 2
    /\ Positions(1, "Identify", "raised") # {}
    /\ Positions(2, "ListRecords", "end") # {}
    /\ response.hasBatchItemFailures
    /\ response.batchItemFailures = <<[itemIdentifier |-> "message-1"]>>

\* ------------------------------------------------------------------ C17
\* the processor call of the phase in hand returned success=false
ReturnedFailure == result.status = "failed" /\ ~result.success

\* the sendMessage calls of the phase that carried a failure of the phase
\* itself, in call order
IsPhaseFailure(entry, phase) ==
    /\ entry.message.messageType = phase
    /\ ~entry.message.success
    /\ entry.message.errorCode # "PAGE_PROCESSING_FAILED"

PhaseFailureSends(phase) ==
    SelectSeq(sent, LAMBDA entry : IsPhaseFailure(entry, phase))

\* the failure message the claim describes
ResultFailureMessage(phase) ==
    [journalKey |-> journalKey, oaiUrl |-> oaiUrl, s3Url |-> NULL,
     s3Key |-> NULL, messageType |-> phase, source |-> "scraping-service",
     success |-> FALSE, errorCode |-> result.errorCode,
     errorMessage |-> result.errorMessage]

CatchCode(phase) ==
    IF phase = "Identify" THEN "IDENTIFY_PROCESSING_ERROR"
    ELSE "LISTRECORDS_PROCESSING_ERROR"

\* one sendMessage call, delivered, with the message of the result
OneFailureMessage(phase) ==
    PhaseFailureSends(phase) =
        <<[message |-> ResultFailureMessage(phase), ok |-> TRUE]>>

\* C17 as stated: when processIdentify or processListRecords returns
\* success=false the orchestrator sends exactly one failure message for the
\* phase, with the code and message of the result, and the item is not
\* reported.
C17_AlwaysOneFailureMessage ==
    /\ hPc \in {"id_done", "id_raised"} /\ ReturnedFailure =>
           hPc = "id_done" /\ OneFailureMessage("Identify")
    /\ hPc \in {"lr_done", "lr_raised"} /\ ReturnedFailure =>
           hPc = "lr_done" /\ OneFailureMessage("ListRecords")

\* what the phase has sent when it ends after the processor returned
\* success=false: first the message of the result; if that send failed, the
\* message of the catch block, and the phase rejects if this one failed too
FailureReported(phase, done, raised) ==
    LET calls == PhaseFailureSends(phase) IN
    /\ Len(calls) \in {1, 2}
    /\ calls[1].message = ResultFailureMessage(phase)
    /\ calls[1].ok <=> Len(calls) = 1
    /\ Len(calls) = 1 => hPc = done
    /\ Len(calls) = 2 =>
          /\ calls[2].message.errorCode = CatchCode(phase)
          /\ calls[2].message.errorMessage = MsgSend
          /\ calls[2].ok <=> hPc = done
    /\ hPc = done => ~Reported(recordIndex)

\* C17: when processIdentify or processListRecords returns success=false and
\* the send of the failure message succeeds, the orchestrator has sent
\* exactly one failure message for the phase, with the phase's messageType,
\* success=false, s3Url and s3Key null and the errorCode and errorMessage of
\* the result, and the phase does not reject; when that send fails, a second
\* message with the phase's PROCESSING_ERROR code follows, and the phase
\* rejects only if this one fails too.
C17_OneFailureMessageIfDelivered ==
    /\ hPc \in {"id_done", "id_raised"} /\ ReturnedFailure =>
           FailureReported("Identify", "id_done", "id_raised")
    /\ hPc \in {"lr_done", "lr_raised"} /\ ReturnedFailure =>
           FailureReported("ListRecords", "lr_done", "lr_raised")

\* the ListRecords phase of an item ended after processListRecords returned
\* a refused connection, the one failure message delivered
C17_Witness ==
    /\ hPc = "lr_done"
    /\ ReturnedFailure
    /\ result.errorCode = getErrorCode(
           ErrorObject("AxiosError", "ECONNREFUSED", 0, "connect ECONNREFUSED"))
    /\ OneFailureMessage("ListRecords")

\* ------------------------------------------------------------------ C18
\* parseListRecordsXml was applied and resolved
PageNormalized ==
    /\ pc = "applied"
    /\ out.fn = "parseListRecordsXml"
    /\ ~out.result.threw

\* the normalization of the record fails: the "_" of its title is no string
FailsToNormalize(record) == record.dc.title = NestedElement

IsStub(article) == "status" \in DOMAIN article

\* what the normalizer gives for the record when it is alone in its page
NormalizedAlone(record, key) ==
    parseListRecordsXml(PageDocument(TRUE, Array(<<record>>)), key).value[1]

\* C18: parseListRecordsXml returns exactly one output record per input
\* record, in input order: a record whose normalization fails yields, at its
\* own position, a stub with status "parse_error", the error message and
\* recordIndex equal to its 1-based position, and the normalization of every
\* other record of the page is unaffected.
C18_OneOutputPerRecord ==
    PageNormalized =>
        LET records == RecordsOf(arg.xmlData)
            parsed == out.result.value
        IN
        /\ Len(parsed) = Len(records)
        /\ \A i \in 1..Len(records) :
              IF FailsToNormalize(records[i])
              THEN /\ IsStub(parsed[i])
                   /\ parsed[i].status = Lit("parse_error")
                   /\ parsed[i].error = Lit(MsgNoTrim)
                   /\ parsed[i].recordIndex = Num(i)
                   /\ parsed[i].type = Lit("ListRecords")
              ELSE /\ ~IsStub(parsed[i])
                   /\ parsed[i] = NormalizedAlone(records[i], arg.key)
                   /\ parsed[i].title = StrVal(Trim(records[i].dc.title.s))

\* a page of three records, the second failing to normalize
C18_Witness ==
    /\ PageNormalized
    /\ RecordsOf(arg.xmlData) = <<RecordA, BadRecord, RecordB>>
    /\ Len(out.result.value) = 3
    /\ IsStub(out.result.value[2])
    /\ out.result.value[2].recordIndex = Num(2)
    /\ out.result.value[3].title = StrVal(<<"b">>)

\* ------------------------------------------------------------------ C19
\* no field of the record is null, undefined or an empty list
NoNullField(obj) == \A k \in DOMAIN obj : Kept(obj[k])

\* C19: every record returned by parseIdentifyXml, parseIndividualRecord and
\* parseListRecordsXml, for every input and every journalKey including the
\* default, contains no field whose value is null, undefined or an empty
\* list.
C19_NoNullFieldReturned ==
    pc = "applied" =>
        /\ out.fn = "parseIndividualRecord" => NoNullField(out.value)
        /\ out.fn = "parseIdentifyXml" /\ ~out.result.threw =>
               NoNullField(out.result.value)
        /\ out.fn = "parseListRecordsXml" /\ ~out.result.threw =>
               \A i \in 1..Len(out.result.value) :
                   NoNullField(out.result.value[i])

\* ------------------------------------------------------------------ C20
\* parseIndividualRecord was applied to a record element and gave an article
RecordNormalized ==
    /\ pc = "applied"
    /\ out.fn = "parseIndividualRecord"
    /\ arg.record.t = "record"
    /\ ~IsStub(out.value)

\* the elements of a Dublin-Core field in source order
ElementsOf(source) ==
    IF source = Undefined THEN <<>>
    ELSE IF source.t = "array" THEN source.items
    ELSE <<source>>

\* the element has a value: text of its own
HasText(element) ==
    \/ element.t = "str" /\ element.s # <<>>
    \/ element.t = "object" /\ element.text.t = "str" /\ element.text.s # <<>>

TrimmedText(element) ==
    StrVal(Trim(IF element.t = "str" THEN element.s ELSE element.text.s))

\* the values of a field: the trimmed texts of its elements that have one
ValuesOf(source) ==
    LET valued == SelectSeq(ElementsOf(source), HasText)
    IN [i \in 1..Len(valued) |-> TrimmedText(valued[i])]

SingleValueFields == {"creator", "date", "format", "language", "relation"}

\* the multi-value fields with the Dublin-Core names of their sources
MultiValueFields ==
    {<<"subjects", "subject">>, <<"types", "type">>, <<"sources", "source">>}

\* C20: each single-value field (creator, date, format, language, relation)
\* equals the trimmed first value of its Dublin-Core source and ignores all
\* later values (it is left out when the first element has no value), and
\* each multi-value field (subjects, types, sources) is the list of all
\* source values in source order, also when the source has exactly one
\* value (it is left out when there is none).
C20_FirstValueAndAllValues ==
    RecordNormalized =>
        /\ \A f \in SingleValueFields :
              LET elements == ElementsOf(arg.record.dc[f]) IN
              IF elements # <<>> /\ HasText(elements[1])
              THEN /\ f \in DOMAIN out.value
                   /\ out.value[f] = TrimmedText(elements[1])
              ELSE f \notin DOMAIN out.value
        /\ \A f \in MultiValueFields :
              IF ValuesOf(arg.record.dc[f[2]]) # <<>>
              THEN /\ f[1] \in DOMAIN out.value
                   /\ out.value[f[1]] = Array(ValuesOf(arg.record.dc[f[2]]))
              ELSE f[1] \notin DOMAIN out.value

\* a record with three dc:subject and two dc:creator values: subjects of
\* length 3, creator the first creator, trimmed
C20_Witness ==
    /\ RecordNormalized
    /\ arg.record.dc.subject =
           Array(<<StrVal(TextA), StrVal(TextB), Element(StrVal(TextC), Lit("en"))>>)
    /\ arg.record.dc.creator = Array(<<StrVal(TextB), StrVal(TextA)>>)
    /\ Len(out.value.subjects.items) = 3
    /\ out.value.subjects.items[2] = StrVal(<<"b">>)
    /\ out.value.creator = StrVal(<<"b">>)

\* ------------------------------------------------------------------ C21
LangFields == {"title", "description", "publisher"}

LangKey(f) == f \o "_lang"

\* the element that is looked at: the field itself or the first of its list
FirstElements(source) ==
    IF ElementsOf(source) = <<>> THEN <<>> ELSE <<ElementsOf(source)[1]>>

SourceHasValue(source) ==
    FirstElements(source) # <<>> /\ HasText(FirstElements(source)[1])

\* the xml:lang attribute of the element looked at, Undefined without one
SourceLang(source) ==
    IF FirstElements(source)[1].t = "object"
    THEN FirstElements(source)[1].xmllang
    ELSE Undefined

\* C21: for each language-tagged field f in {title, description, publisher}
\* of every normalized record: f_lang is present only if f is present; when
\* the source has no value for f both f and f_lang are absent; when the
\* value is present and the language is absent only f_lang is absent.
C21_LangOnlyWithValue ==
    RecordNormalized =>
        \A f \in LangFields :
            LET source == arg.record.dc[f]
                article == out.value
            IN
            /\ LangKey(f) \in DOMAIN article => f \in DOMAIN article
            /\ ~SourceHasValue(source) =>
                  /\ f \notin DOMAIN article
                  /\ LangKey(f) \notin DOMAIN article
            /\ SourceHasValue(source) =>
                  /\ f \in DOMAIN article
                  /\ article[f] = TrimmedText(FirstElements(source)[1])
                  /\ IF Truthy(SourceLang(source))
                     THEN /\ LangKey(f) \in DOMAIN article
                          /\ article[LangKey(f)] = SourceLang(source)
                     ELSE LangKey(f) \notin DOMAIN article

\* a title with text and no xml:lang: title without title_lang
C21_Witness ==
    /\ RecordNormalized
    /\ arg.record.dc.title = Element(StrVal(TextC), Undefined)
    /\ "title" \in DOMAIN out.value
    /\ out.value.title = StrVal(TextC)
    /\ "title_lang" \notin DOMAIN out.value

\* ------------------------------------------------------------------ C22
IdentifyReturned == call = "Identify" /\ pc = "returned"

\* C22: a failed processIdentify result carries in url the original
\* caller-supplied URL unchanged, for every kind of failure (validation,
\* transport error, non-200, empty body), while a successful result carries
\* the resolved request URL.
C22_FailureCarriesCallerUrl ==
    IdentifyReturned =>
        IF result.success
        THEN /\ Len(requests) = 1
             /\ result.url = Str(requests[1])
             /\ result.url = Str(buildIdentifyUrl(oaiUrl.s))
        ELSE result.url = oaiUrl

\* a non-200 answer to the request of a URL ending in /oai: the result
\* carries the caller's URL, which is not the URL of the request
C22_Witness ==
    /\ IdentifyReturned
    /\ ~result.success
    /\ Len(outcomes) = 1
    /\ ~outcomes[1].raised
    /\ outcomes[1].status = 404
    /\ result.url = oaiUrl
    /\ result.url # Str(requests[1])

\* ------------------------------------------------------------------ C23
\* the last fetch of the call was rejected with a network error
LastFetchNetworkError ==
    /\ outcomes # <<>>
    /\ outcomes[Len(outcomes)].raised
    /\ outcomes[Len(outcomes)].error.kind = "error"
    /\ outcomes[Len(outcomes)].error.code \in NetworkCodes

\* the request of the last fetch had been made before
LastRequestRetried ==
    \E i \in 1..(Len(requests) - 1) : requests[i] = requests[Len(requests)]

\* C23: when a fetch fails with a network error, the request is retried
\* with exponential backoff before the failure is reported.
C23_NetworkErrorRetried ==
    pc = "returned" /\ ~result.success /\ LastFetchNetworkError =>
        LastRequestRetried

\* ------------------------------------------------------------------ C24
\* the fetch was answered 200 with a document that has no ListRecords element
PageWithoutListRecords(o) ==
    /\ ~o.raised
    /\ o.status = 200
    /\ o.data.kind = "xml"
    /\ ~o.data.hasListRecords

\* C24: when the parsed response of page k has no ListRecords element, the
\* call counts no record for that page, hands it to no onPage call, makes no
\* further request and has returned success = true with pageCount = k and
\* totalRecordsProcessed = the sum of the records of pages 1..k-1.
C24_PageWithoutListRecordsEndsHarvest ==
    call = "ListRecords" =>
        \A k \in 1..Len(outcomes) :
            PageWithoutListRecords(outcomes[k])
            => /\ k = Len(outcomes)
               /\ Len(requests) = k
               /\ Len(onPageCalls) = k - 1
               /\ resumptionToken = NoToken
               /\ pc = "returned"
               /\ result.success
               /\ result.pageCount = k
               /\ result.totalRecordsProcessed =
                      SumOfRecords(SubSeq(outcomes, 1, k - 1))

\* the second page has no ListRecords element, the first one had records
C24_Witness ==
    /\ call = "ListRecords"
    /\ pc = "returned"
    /\ Len(outcomes) = 2
    /\ PageWithoutListRecords(outcomes[2])
    /\ maxPages > 2
    /\ result.pageCount = 2
    /\ result.totalRecordsProcessed = MaxRecs

\* ------------------------------------------------------------------ C25
\* the requests that have been made and not yet answered
Outstanding == Len(requests) - Len(outcomes)

\* every request but the first was made after the page before it had been
\* handed to onPage, onPage had returned without failure and a delay had
\* been started for it
RequestsFollowCallbacks ==
    \A k \in 1..(Len(requests) - 1) :
        /\ Len(outcomes) >= k
        /\ Len(onPageOutcomes) >= k
        /\ onPageOutcomes[k].ok
        /\ delays >= k

\* a step that makes the request of page k+1 is the step that ends the
\* delay after page k
NextRequestStep ==
    (Len(requests') > Len(requests) /\ requests # <<>>)
    => /\ pc = "lr_delay"
       /\ Len(requests') = Len(requests) + 1
       /\ Len(outcomes) = Len(requests)
       /\ Len(onPageOutcomes) = Len(requests)
       /\ delays = Len(requests)

\* C25: within one ListRecords call at most one request is outstanding at
\* any moment, and the request of page k+1 is made only after onPage has
\* returned for page k and the delay between the pages has passed.
C25_OneRequestAtATime ==
    /\ [](call = "ListRecords" =>
            /\ Outstanding \in {0, 1}
            /\ Outstanding = 1 <=> pc = "lr_fetch"
            /\ RequestsFollowCallbacks)
    /\ [][call = "ListRecords" => NextRequestStep]_vars

\* the third request is outstanding, two pages handled and two delays over
C25_Witness ==
    /\ call = "ListRecords"
    /\ pc = "lr_fetch"
    /\ Len(requests) = 3
    /\ Len(outcomes) = 2
    /\ Len(onPageOutcomes) = 2
    /\ delays = 2

\* ------------------------------------------------------------------ C26
\* the call has ended, by returning a result or by raising
ListRecordsCallEnds ==
    /\ [](Len(requests) <= maxPages)
    /\ (call = "ListRecords") ~> Finished

\* C26: when every fetch, onPage call and delay completes, every ListRecords
\* call eventually returns a result, after at most maxPages fetches, whatever
\* the endpoint answers, the same token on every page included.
C26_EveryCallReturnsAResult ==
    /\ [](Len(requests) <= maxPages)
    /\ (call = "ListRecords") ~> (pc = "returned")

\* ------------------------------------------------------------------ C27
\* C27: the delay is executed only between two successive fetches: a call
\* that has ended has executed one delay less than it has made fetches, none
\* of them after its last fetch, and none after a failed fetch.
C27_DelaysBetweenFetchesOnly ==
    (call = "ListRecords" /\ requests # <<>>) =>
        /\ delays <= Len(requests)
        /\ pc # "lr_delay" => delays <= Len(outcomes)
        /\ Finished => delays = Len(requests) - 1

\* ------------------------------------------------------------------ C28
\* the token of a page by the shape of its resumptionToken element: the
\* bare string, the text of the element, or the resumptionToken attribute
TokenOfShape(body) ==
    IF body.tokShape \in {"string", "text", "attr", "both"}
    THEN body.tokVal
    ELSE NoToken

\* the harvest of pages without token has ended with its first page
EndedWithFirstPage ==
    /\ pc = "returned"
    /\ result.success
    /\ result.pageCount = 1
    /\ result.errorCode = NULL
    /\ Len(requests) = 1
    /\ delays = 0

\* C28: extractResumptionTokenFromParsed returns the token when it is a bare
\* string, the text under "_" or the attribute "$".resumptionToken, and null
\* for every other shape (no element, an empty string, an object with other
\* attributes only); with null the pagination ends with success.
C28_TokenOfEveryShape ==
    /\ out.fn = "extractResumptionTokenFromParsed"
       => out.value = TokenOfShape(arg)
    /\ (call = "ListRecords" /\ onPageOutcomes # <<>>
            /\ TokenOfShape(arg) = NoToken)
       => EndedWithFirstPage

\* an element with only other attributes: null, and the harvest has ended
C28_Witness ==
    /\ arg.tokShape = "other"
    /\ out.fn = "extractResumptionTokenFromParsed"
    /\ out.value = NoToken
    /\ maxPages > 1
    /\ onPageOutcomes # <<>>
    /\ EndedWithFirstPage

\* ------------------------------------------------------------------ C29
\* the ListRecords phase has ended after a harvest that returned success
HarvestSucceeded ==
    /\ hPc = "lr_done"
    /\ call = "ListRecords"
    /\ pc = "returned"
    /\ result.success

\* the harvest stopped at the page cap with a token in hand
EndedAtCap ==
    /\ Len(outcomes) = maxPages
    /\ HasToken(outcomes[Len(outcomes)])

\* the records of pages 1..i
RecordsUpTo(i) == SumOfRecords(SubSeq(outcomes, 1, i))

\* what the record counts of the delivered pages make of the result
ResultOfCounts ==
    [pageCount |-> Len(outcomes),
     totalRecordsProcessed |-> RecordsUpTo(Len(outcomes)),
     success |-> TRUE, status |-> "completed", errorCode |-> NULL,
     errorMessage |-> NULL]

\* what the record counts make of batch message b of page i
BatchMessageOfCounts(i, b) ==
    LET n == outcomes[i].data.recN
        size == Min(50, n - (b - 1) * 50)
        file == journalKey \o "-listrecords-page-" \o ToString(i) \o ".xml"
    IN
    [journalKey |-> journalKey, oaiUrl |-> oaiUrl,
     s3Url |-> "https://bucket.s3.amazonaws.com/" \o file, s3Key |-> file,
     messageType |-> "ArticleBatch", source |-> "scraping-service",
     pageNumber |-> i, batchNumber |-> b,
     totalBatches |-> (n + 49) \div 50,
     articlesInBatch |-> size, totalArticlesInPage |-> n,
     totalRecordsProcessed |-> RecordsUpTo(i),
     success |-> TRUE, errorCode |-> NULL, errorMessage |-> NULL,
     articles |-> [x \in 1..size |-> (b - 1) * 50 + x]]

\* what the record counts make of the failure message of page i, whose raw
\* file was refused
FailureMessageOfCounts(i) ==
    [journalKey |-> journalKey, oaiUrl |-> oaiUrl, s3Url |-> NULL,
     s3Key |-> NULL, messageType |-> "ListRecords",
     source |-> "scraping-service", success |-> FALSE,
     errorCode |-> "PAGE_PROCESSING_FAILED", errorMessage |-> MsgUpload,
     pageNumber |-> i, recordsInPage |-> outcomes[i].data.recN,
     totalRecordsProcessed |-> RecordsUpTo(i)]

\* the message is one of a delivered page and says what the record counts
\* make it say
MessageOfCounts(m) ==
    IF m.messageType = "ArticleBatch"
    THEN /\ m.pageNumber \in 1..Len(outcomes)
         /\ m.batchNumber \in 1..((outcomes[m.pageNumber].data.recN + 49) \div 50)
         /\ m = BatchMessageOfCounts(m.pageNumber, m.batchNumber)
    ELSE /\ m.errorCode = "PAGE_PROCESSING_FAILED"
         /\ m.pageNumber \in 1..Len(outcomes)
         /\ m = FailureMessageOfCounts(m.pageNumber)

IdentifyPhaseEndedAfterFetch ==
    /\ hPc \in {"id_done", "id_raised"}
    /\ result.success
    /\ result.type = "Identify"

\* the calls of createAndUploadXml for the Identify document
IdentifyUploads ==
    SelectSeq(uploads, LAMBDA u : u.label = journalKey \o "-identify")

\* the raw file was refused
IdentifyStorageFailed ==
    IdentifyUploads # <<>> /\ ~IdentifyUploads[1].ok

\* the document cannot be normalized: no XML, or no Identify element
IdentifyNormalizationFailed ==
    result.data.kind # "identify"

\* the sends of the message with the Identify data, and those delivered
IdentifyDataSends ==
    SelectSeq(sent, LAMBDA c :
        c.message.messageType = "Identify" /\ c.message.success)
IdentifyDataDelivered ==
    SelectSeq(IdentifyDataSends, LAMBDA c : c.ok)

\* the sends of a failure message of the Identify phase
IdentifyFailureSends ==
    SelectSeq(sent, LAMBDA c :
        c.message.messageType = "Identify" /\ ~c.message.success)

\* what went wrong after the fetch, as the message of the error
IdentifyFailureText ==
    IF IdentifyStorageFailed THEN {MsgUpload}
    ELSE IF IdentifyNormalizationFailed
    THEN {MsgInvalidIdentify, MsgUnparsableIdentify}
    ELSE {MsgSend}

PageParseApplied == pc = "applied" /\ out.fn = "parseListRecordsXml"

\* the document has a ListRecords element
ListRecordsPresent == arg.xmlData.ListRecords # ListRecordsMissing

\* C31: parseListRecordsXml fails when the ListRecords element is missing
\* from the document, and returns the empty list, without failing, when the
\* element is there and holds no record.
C31_MissingFailsEmptyGivesNone ==
    PageParseApplied =>
        /\ ~ListRecordsPresent
           => /\ out.result.threw
              /\ out.result.message = MsgInvalidListRecords
        /\ (ListRecordsPresent /\ RecordsOf(arg.xmlData) = <<>>)
           => /\ ~out.result.threw
              /\ out.result.value = <<>>

\* ------------------------------------------------------------------ C32
\* a ListRecords call has returned success
ListRecordsSucceeded ==
    /\ call = "ListRecords"
    /\ pc = "returned"
    /\ result.success

\* the sum of the recordsInPage arguments of onPage calls 1..k
RECURSIVE RecordsHandedOver(_)
RecordsHandedOver(k) ==
    IF k = 0 THEN 0
    ELSE onPageCalls[k].recordsInPage + RecordsHandedOver(k - 1)

\* the onPage calls are numbered 1, 2, ... in their order, each handing over
\* the record count of its page and the sum of the counts so far, and the
\* returned total is the sum handed over last
OnPageCallsCounted ==
    /\ Len(onPageOutcomes) = Len(onPageCalls)
    /\ \A k \in 1..Len(onPageCalls) :
           /\ onPageCalls[k].pageNumber = k
           /\ onPageCalls[k].recordsInPage = outcomes[k].data.recN
           /\ onPageCalls[k].recordsProcessed = RecordsHandedOver(k)
    /\ result.totalRecordsProcessed = RecordsHandedOver(Len(onPageCalls))

PagesWithListRecords ==
    IF PageWithoutListRecords(outcomes[Len(outcomes)])
    THEN result.pageCount - 1
    ELSE result.pageCount

C33_CallsNeverRaise ==
    /\ pc # "raised"
    /\ pc = "returned" =>
           IF result.success
           THEN result.errorCode = NULL /\ result.errorMessage = NULL
           ELSE result.errorCode # NULL

\* ------------------------------------------------------------------ C34
\* the document the normalizer makes of page i
NormalizedPage(i) == NormalizerDocument(outcomes[i].data)

RECURSIVE SumOfArticlesInBatch(_)
SumOfArticlesInBatch(calls) ==
    IF calls = <<>> THEN 0
    ELSE Head(calls).message.articlesInBatch + SumOfArticlesInBatch(Tail(calls))

\* the articles of the batches of pages 1..n
RECURSIVE ArticlesBatchedUpTo(_)
ArticlesBatchedUpTo(n) ==
    IF n = 0 THEN 0
    ELSE SumOfArticlesInBatch(PageSends(n)) + ArticlesBatchedUpTo(n - 1)

\* the two counts of page i agree: the client's recordsInPage is the number
\* of articles the normalizer returns, and the totalArticlesInPage of every
\* batch message of the page
CountsAgree(i) ==
    /\ ~NormalizerRejects(NormalizedPage(i))
    /\ onPageCalls[i].recordsInPage = NormalizerCount(NormalizedPage(i))
    /\ \A b \in 1..Len(PageSends(i)) :
           PageSends(i)[b].message.totalArticlesInPage
               = onPageCalls[i].recordsInPage

\* the ListRecords call has returned and every callback has ended
HarvestReturned ==
    /\ call = "ListRecords"
    /\ pc = "returned"
    /\ Len(onPageOutcomes) = Len(onPageCalls)

ArticlesSent(i) ==
    Concat([b \in 1..Len(PageSends(i)) |-> PageSends(i)[b].message.articles])

\* the articles of the sends among calls that ended as ok says
RECURSIVE ArticlesOfSends(_, _)
ArticlesOfSends(calls, ok) ==
    IF calls = <<>> THEN 0
    ELSE (IF Head(calls).ok = ok THEN Head(calls).message.articlesInBatch ELSE 0)
             + ArticlesOfSends(Tail(calls), ok)

\* the raw XML of page n has been stored
PageStored(n) ==
    \E k \in 1..Len(uploads) :
        /\ uploads[k].label = journalKey \o "-listrecords-page-" \o ToString(n)
        /\ uploads[k].ok

\* the callback in hand has returned from a page it stored and normalized
CallbackReturnedFromGoodPage ==
    /\ cbPc = "returned"
    /\ pageError.kind = "null"

\* a step that makes an ArticleBatch send finds the raw XML of the page of
\* the batch stored
BatchSendStep ==
    (Len(sent') = Len(sent) + 1
        /\ sent'[Len(sent')].message.messageType = "ArticleBatch")
    => /\ PageStored(sent'[Len(sent')].message.pageNumber)
       /\ uploads' = uploads

HasBothFields(i) ==
    /\ event.Records[i].body.json = "object"
    /\ ~Lacking(i)

\* the messages with messageType Identify that reached the queue for the
\* item in hand: the one with the data, and the failure messages
IdentifyDelivered ==
    SelectSeq(sent, LAMBDA c : c.message.messageType = "Identify" /\ c.ok)
IdentifyFailuresDelivered ==
    SelectSeq(IdentifyFailureSends, LAMBDA c : c.ok)

\* the Identify phase of the item in hand has returned
IdentifyPhaseReturned ==
    /\ recordIndex \in Items
    /\ Positions(recordIndex, "Identify", "end") # {}

\* one message with messageType Identify was delivered for the item in hand:
\* the one with the data or one failure message
OneIdentifyDelivered ==
    /\ Len(IdentifyDelivered) = 1
    /\ Len(IdentifyDataDelivered) + Len(IdentifyFailuresDelivered) = 1

\* the step that ends the handling of an item without reporting it
UnreportedItemStep ==
    (/\ hPc \in {"id_raised", "lr_done", "lr_raised"}
     /\ hPc' = "h_loop"
     /\ batchItemFailures' = batchItemFailures)
    => /\ HasBothFields(recordIndex)
       /\ IdentifyPhaseReturned
       /\ OneIdentifyDelivered
       /\ sent' = sent

\* C36: for every work item that has both fields and is not reported in
\* batchItemFailures, exactly one message with messageType Identify, the
\* success message or one failure message and never both, was delivered to
\* the queue, a send that raised counting as not delivered.
C36_OneIdentifyMessagePerUnreportedItem ==
    /\ [](IdentifyPhaseReturned => OneIdentifyDelivered)
    /\ [](hPc = "h_returned" =>
            \A i \in Items :
                HasBothFields(i) /\ ~Reported(i) =>
                    /\ Positions(i, "Identify", "end") # {}
                    /\ Positions(i, "Identify", "raised") = {}
                    /\ Positions(i, "ListRecords", "end") # {})
    /\ [][UnreportedItemStep]_vars

\* the handler has returned without reporting its one item, whose failure
\* message of processIdentify raised and whose message of the catch block
\* was delivered
C36_Witness ==
    /\ hPc = "h_returned"
    /\ Len(event.Records) = 1
    /\ HasBothFields(1)
    /\ ~response.hasBatchItemFailures
    /\ Len(IdentifyFailureSends) = 2
    /\ ~IdentifyFailureSends[1].ok
    /\ IdentifyFailureSends[2].ok
    /\ IdentifyFailureSends[2].message.errorCode = "IDENTIFY_PROCESSING_ERROR"
    /\ IdentifyDataSends = <<>>
====
